---- MODULE Spec2Model ----
(***************************************************************************)
(* Model of the market intelligence app: the persistence layer             *)
(* (src/src/database.py, scripts/clear_conversations.py), the telemetry    *)
(* logger (src/src/mlflow_tracing.py), the response normaliser             *)
(* (src/src/databricks_client.py) and the question submission of           *)
(* src/app.py.                                                             *)
(***************************************************************************)
EXTENDS Integers, Sequences, FiniteSets, TLC

\* Python None and SQL NULL.
NONE == "<None>"

\* Bounds of the model.
MaxConvs == 3
MaxMsgs == 2
MaxClock == 1

\* Input domains: the argument values and commit outcomes a specification draws from.
Plain ==
  [users |-> {"u1"}, conv_traces |-> {NONE}, trace_updates |-> {"tr-1"},
   msg_users |-> {"u1"}, questions |-> {"q1"}, answers |-> {"a1"},
   statuses |-> {"complete"}, query_ids |-> {"qid-1"}, msg_traces |-> {NONE},
   upd_answers |-> {NONE, "a2"}, upd_statuses |-> {NONE}, committed |-> {TRUE, FALSE}]

RoundTripInputs ==
  [Plain EXCEPT !.answers = {NONE, "a1"}, !.statuses = {"pending", "complete"},
                !.query_ids = {NONE}, !.upd_answers = {NONE, ""},
                !.committed = {TRUE}]

UpdateInputs ==
  [Plain EXCEPT !.answers = {NONE, "a1"}, !.statuses = {"pending"},
                !.query_ids = {NONE}, !.upd_answers = {NONE, "", "a2"},
                !.upd_statuses = {NONE, "complete"}, !.committed = {TRUE}]

ConversationInputs == [Plain EXCEPT !.users = {"u1", "u2"}, !.committed = {TRUE}]

ConvIds == 1..MaxConvs
MsgIds == 1..MaxMsgs

Helpers ==
  {"init_database", "create_conversation", "update_conversation_trace", "add_message",
   "update_message", "get_conversation_messages", "get_message_by_query_id",
   "get_user_conversations"}

Callers == Helpers \cup {"clear_all_conversations"}

VARIABLES
  schema,                \* tables, columns and indexes of the Postgres database
  conversations,         \* rows of table conversations
  messages,              \* rows of table messages
  conversations_id_seq,  \* next value of the SERIAL sequence of conversations.id
  messages_id_seq,       \* next value of the SERIAL sequence of messages.id
  clock,                 \* CURRENT_TIMESTAMP of the database
  pc,                    \* position of the process inside a helper call
  call,                  \* the helper call in progress
  openConns,             \* number of open psycopg2 connections of the process
  credUses,              \* connections opened with the most recent credential
  ret,                   \* what the helper call in progress is about to return
  added,                 \* history: values add_message wrote, by returned message id
  assessments,           \* feedback and expectations stored by MLflow
  log_ret,               \* outcome of the last log_* call of mlflow_tracing.py
  response,              \* the value handed to format_response
  fmt_ret,               \* what format_response returned for it
  session,               \* st.session_state of each browser session
  run,                   \* the script run of each session that handles a question
  experiment,            \* the most recent trace of the MLflow experiment
  endpoint,              \* the last call_endpoint call and the clients it used
  config,                \* environment, config.yaml and the loaded DatabricksConfig
  sidebar,               \* the conversation list cache of each session and its last render
  now                    \* time.time(), in seconds

dbVars == <<schema, conversations, messages, conversations_id_seq, messages_id_seq, clock>>
connVars == <<pc, call, openConns, credUses, ret>>
telemetryVars == <<assessments, log_ret>>
fmtVars == <<response, fmt_ret>>
appVars == <<session, run, experiment>>
vars == <<schema, conversations, messages, conversations_id_seq, messages_id_seq, clock,
          pc, call, openConns, credUses, ret, added, assessments, log_ret, response,
          fmt_ret, session, run, experiment, endpoint, config, sidebar, now>>
clientVars == <<endpoint, config>>
sidebarVars == <<sidebar, now>>
\* What the persistence layer, the logger, format_response and the page do not touch.
nonDbVars == <<telemetryVars, fmtVars, appVars, clientVars, sidebarVars>>
nonTelemetryVars == <<dbVars, connVars, added, fmtVars, appVars, clientVars, sidebarVars>>
nonFmtVars == <<dbVars, connVars, added, telemetryVars, appVars, clientVars, sidebarVars>>
nonAppVars == <<connVars, added, telemetryVars, fmtVars, clientVars, sidebarVars>>
nonClientVars == <<dbVars, connVars, added, telemetryVars, fmtVars, appVars, sidebarVars>>

----------------------------------------------------------------------------
\* Schema (init_database).  A statement maps the database d = [schema, conversations,
\* messages] to the database after it.

NoSchema == [conversations |-> "absent", messages |-> "absent", indexes |-> {}]

\* A database created by a version that had no mlflow_trace_id column.
LegacySchema == [conversations |-> "legacy", messages |-> "present", indexes |-> {}]

\* Mutant: the table is dropped (cascading to messages) and created again.
CreateConversationsTableDropFirst(d) ==
  [d EXCEPT !.schema.conversations = "current", !.conversations = {}, !.messages = {}]

\* CREATE TABLE IF NOT EXISTS conversations (... mlflow_trace_id TEXT ...)
CreateConversationsTable(d) ==
  IF d.schema.conversations = "absent" THEN [d EXCEPT !.schema.conversations = "current"] ELSE d

\* DO $$ ... IF NOT EXISTS (column) THEN ALTER TABLE conversations ADD COLUMN ...
AddTraceColumn(d) ==
  IF d.schema.conversations = "legacy" THEN [d EXCEPT !.schema.conversations = "current"] ELSE d

\* CREATE TABLE IF NOT EXISTS messages (...)
CreateMessagesTable(d) ==
  IF d.schema.messages = "absent" THEN [d EXCEPT !.schema.messages = "present"] ELSE d

\* CREATE INDEX IF NOT EXISTS idx_messages_conversation_id / idx_messages_query_id
CreateIndexes(d) ==
  [d EXCEPT !.schema.indexes =
     @ \cup {"idx_messages_conversation_id", "idx_messages_query_id"}]

InitStatements(d) ==
  CreateIndexes(CreateMessagesTable(AddTraceColumn(CreateConversationsTable(d))))

----------------------------------------------------------------------------
\* Rows and queries

ConvRow(id, user_id, mlflow_trace_id) ==
  [id |-> id, user_id |-> user_id, mlflow_trace_id |-> mlflow_trace_id, created_at |-> clock]

MsgRow(id, conversation_id, user_id, question, answer, status, query_id, trace_id) ==
  [id |-> id, conversation_id |-> conversation_id, user_id |-> user_id,
   question |-> question, answer |-> answer, status |-> status, query_id |-> query_id,
   trace_id |-> trace_id, created_at |-> clock, updated_at |-> clock]

Perms(S) ==
  {f \in [1..Cardinality(S) -> S] : \A i, j \in 1..Cardinality(S) : i # j => f[i] # f[j]}

\* The orders ORDER BY created_at ASC / DESC may return.
OrderByCreatedAsc(S) ==
  {f \in Perms(S) : \A i \in 1..(Cardinality(S) - 1) : f[i].created_at <= f[i + 1].created_at}

OrderByCreatedDesc(S) ==
  {f \in Perms(S) : \A i \in 1..(Cardinality(S) - 1) : f[i].created_at >= f[i + 1].created_at}

\* SELECT id, question, answer, status, query_id, created_at, updated_at
MessageColumns(m) ==
  [id |-> m.id, question |-> m.question, answer |-> m.answer, status |-> m.status,
   query_id |-> m.query_id, created_at |-> m.created_at, updated_at |-> m.updated_at]

\* Mutant: the WHERE clause is missing.
SelectAllMessages(conversation_id) == {MessageColumns(m) : m \in messages}

\* ... FROM messages WHERE conversation_id = %s
SelectConversationMessages(conversation_id) ==
  {MessageColumns(m) : m \in {x \in messages : x.conversation_id = conversation_id}}

\* SELECT ..., conversation_id, ... FROM messages WHERE query_id = %s  (NULL matches nothing)
SelectByQueryId(query_id) ==
  {m \in messages : query_id # NONE /\ m.query_id = query_id}

\* Mutant: an inner join, which drops the conversations without messages.
InnerJoin(user_id) ==
  LET cs == {c \in conversations : c.user_id = user_id}
      matched == {j \in cs \X messages : j[2].conversation_id = j[1].id}
  IN  {[c |-> j[1], m |-> <<j[2].id>>] : j \in matched}

\* conversations c LEFT JOIN messages m ON c.id = m.conversation_id WHERE c.user_id = %s
LeftJoin(user_id) ==
  LET cs == {c \in conversations : c.user_id = user_id}
      matched == {j \in cs \X messages : j[2].conversation_id = j[1].id}
      unmatched == {c \in cs : \A x \in messages : x.conversation_id # c.id}
  IN  {[c |-> j[1], m |-> <<j[2].id>>] : j \in matched}
        \cup {[c |-> c, m |-> <<>>] : c \in unmatched}

\* SELECT c.id, c.created_at, COUNT(m.id) ... GROUP BY c.id, c.created_at
GroupConversations(user_id) ==
  LET J == LeftJoin(user_id)
      keys == {<<j.c.id, j.c.created_at>> : j \in J}
  IN  {[id |-> k[1], created_at |-> k[2],
        message_count |->
          Cardinality({j \in J : j.c.id = k[1] /\ j.c.created_at = k[2] /\ j.m # <<>>})] :
         k \in keys}

----------------------------------------------------------------------------
\* get_connection: credential, connect, finally close

NoCall == [op |-> NONE, args |-> <<>>, creds |-> 0, conns |-> 0, stmts |-> 0, commits |-> 0]
NoRet == [raised |-> FALSE, val |-> <<>>]

\* Mutant: a cached credential is reused instead of generating one.
GenerateCredentialCached(c) == c

\* client.database.generate_database_credential(request_id=str(uuid.uuid4()), ...)
GenerateCredential(c) == [c EXCEPT !.creds = @ + 1]

\* psycopg2.connect(**connection_params) with password = credential.token
Connect(c) == [c EXCEPT !.conns = @ + 1]

\* Mutant: the connection is kept for the next call instead of being closed.
CloseConnectionKept(n) == n

\* finally: conn.close()
CloseConnection(n) == n - 1

\* The call raises before a connection exists: no instance name, credential
\* generation fails, no service principal is found, or connect fails.
get_connection_raises ==
  /\ pc = "idle"
  /\ \E generated \in BOOLEAN :
       credUses' = IF generated THEN 0 ELSE credUses
  /\ UNCHANGED <<pc, call, openConns, ret, added>>
  /\ UNCHANGED dbVars
  /\ UNCHANGED nonDbVars

get_connection(op) ==
  /\ pc = "idle"
  /\ call' = Connect(GenerateCredential([NoCall EXCEPT !.op = op]))
  /\ openConns' = openConns + (call'.conns)
  /\ credUses' = IF call'.creds > 0 THEN call'.conns ELSE credUses + call'.conns
  /\ pc' = "with"
  /\ UNCHANGED <<ret, added>>
  /\ UNCHANGED dbVars
  /\ UNCHANGED nonDbVars

conn_close ==
  /\ pc = "finally"
  /\ openConns' = CloseConnection(openConns)
  /\ pc' = "idle"
  /\ call' = NoCall
  /\ ret' = NoRet
  /\ UNCHANGED <<credUses, added>>
  /\ UNCHANGED dbVars
  /\ UNCHANGED nonDbVars

\* The body of the with block ends: normally with a value, or by raising.
Returns(args, val, stmts, commits) ==
  /\ pc' = "finally"
  /\ call' = [call EXCEPT !.args = args, !.stmts = stmts, !.commits = commits]
  /\ ret' = [raised |-> FALSE, val |-> val]
  /\ UNCHANGED <<openConns, credUses>>

Raises(args, stmts) ==
  /\ pc' = "finally"
  /\ call' = [call EXCEPT !.args = args, !.stmts = stmts]
  /\ ret' = [raised |-> TRUE, val |-> <<>>]
  /\ UNCHANGED <<openConns, credUses>>

InBody(op) == pc = "with" /\ call.op = op

----------------------------------------------------------------------------
\* The helpers of database.py: the body of each with block

Database == [schema |-> schema, conversations |-> conversations, messages |-> messages]

init_database ==
  /\ InBody("init_database")
  /\ LET d == InitStatements(Database)
     IN  /\ schema' = d.schema
         /\ conversations' = d.conversations
         /\ messages' = d.messages
  /\ Returns(<<>>, <<>>, 5, 1)
  /\ UNCHANGED <<conversations_id_seq, messages_id_seq, clock, added>>
  /\ UNCHANGED nonDbVars

\* INSERT INTO conversations (user_id, mlflow_trace_id) VALUES (%s, %s) RETURNING id
\* nextval is consumed by the INSERT even when the transaction is never committed.
create_conversation(D) ==
  /\ InBody("create_conversation")
  /\ \E user_id \in D.users, mlflow_trace_id \in D.conv_traces :
       LET args == [user_id |-> user_id, mlflow_trace_id |-> mlflow_trace_id]
       IN  IF schema.conversations # "current"
           THEN /\ Raises(args, 0)
                /\ UNCHANGED <<conversations, conversations_id_seq>>
           ELSE /\ conversations_id_seq <= MaxConvs
                /\ conversations_id_seq' = conversations_id_seq + 1
                /\ \E committed \in D.committed :
                     IF committed
                     THEN /\ conversations' = conversations \cup
                               {ConvRow(conversations_id_seq, user_id, mlflow_trace_id)}
                          /\ Returns(args, <<conversations_id_seq>>, 1, 1)
                     ELSE /\ UNCHANGED conversations
                          /\ Raises(args, 1)
  /\ UNCHANGED <<schema, messages, messages_id_seq, clock, added>>
  /\ UNCHANGED nonDbVars

\* UPDATE conversations SET mlflow_trace_id = %s WHERE id = %s
SetConversationTrace(rows, conversation_id, mlflow_trace_id) ==
  {IF c.id = conversation_id THEN [c EXCEPT !.mlflow_trace_id = mlflow_trace_id] ELSE c :
     c \in rows}

update_conversation_trace(D) ==
  /\ InBody("update_conversation_trace")
  /\ \E conversation_id \in ConvIds, mlflow_trace_id \in D.trace_updates :
       LET args == [conversation_id |-> conversation_id, mlflow_trace_id |-> mlflow_trace_id]
       IN  IF schema.conversations # "current"
           THEN Raises(args, 0) /\ UNCHANGED conversations
           ELSE /\ conversations' =
                     SetConversationTrace(conversations, conversation_id, mlflow_trace_id)
                /\ Returns(args, <<>>, 1, 1)
  /\ UNCHANGED <<schema, messages, conversations_id_seq, messages_id_seq, clock, added>>
  /\ UNCHANGED nonDbVars

Remember(h, id, rec) == [i \in (DOMAIN h) \cup {id} |-> IF i = id THEN rec ELSE h[i]]

\* INSERT INTO messages (conversation_id, user_id, question, answer, status, query_id,
\* trace_id) VALUES (...) RETURNING id; conversation_id REFERENCES conversations(id)
add_message(D) ==
  /\ InBody("add_message")
  /\ \E conversation_id \in ConvIds, user_id \in D.msg_users, question \in D.questions,
        answer \in D.answers, status \in D.statuses,
        query_id \in D.query_ids, trace_id \in D.msg_traces :
       LET args == [conversation_id |-> conversation_id, user_id |-> user_id,
                    question |-> question, answer |-> answer, status |-> status,
                    query_id |-> query_id, trace_id |-> trace_id]
           id == messages_id_seq
       IN  IF schema.messages # "present"
           THEN /\ Raises(args, 0)
                /\ UNCHANGED <<messages, messages_id_seq, added>>
           ELSE /\ id <= MaxMsgs
                /\ messages_id_seq' = id + 1
                /\ \E committed \in D.committed :
                     IF committed /\ \E c \in conversations : c.id = conversation_id
                     THEN /\ messages' = messages \cup
                               {MsgRow(id, conversation_id, user_id, question, answer,
                                       status, query_id, trace_id)}
                          /\ added' = Remember(added, id,
                               [conversation_id |-> conversation_id, question |-> question,
                                answer |-> answer, status |-> status, updated |-> FALSE])
                          /\ Returns(args, <<id>>, 1, 1)
                     ELSE /\ UNCHANGED <<messages, added>>
                          /\ Raises(args, 1)
  /\ UNCHANGED <<schema, conversations, conversations_id_seq, clock>>
  /\ UNCHANGED nonDbVars

\* Mutant: truthiness instead of "is not None", which skips an empty string.
UpdateColumnsTruthy(answer, status) ==
  (IF answer \notin {NONE, ""} THEN {"answer"} ELSE {})
    \cup (IF status \notin {NONE, ""} THEN {"status"} ELSE {})

\* updates = []; if answer is not None: ...; if status is not None: ...
UpdateColumns(answer, status) ==
  (IF answer # NONE THEN {"answer"} ELSE {}) \cup (IF status # NONE THEN {"status"} ELSE {})

\* UPDATE messages SET <updates>, updated_at = CURRENT_TIMESTAMP WHERE id = %s
UpdateMessageRows(rows, message_id, answer, status) ==
  LET cols == UpdateColumns(answer, status)
  IN  {IF m.id = message_id
       THEN [m EXCEPT !.answer = IF "answer" \in cols THEN answer ELSE @,
                      !.status = IF "status" \in cols THEN status ELSE @,
                      !.updated_at = clock]
       ELSE m : m \in rows}

update_message(D) ==
  /\ InBody("update_message")
  /\ \E message_id \in MsgIds, answer \in D.upd_answers, status \in D.upd_statuses :
       LET args == [message_id |-> message_id, answer |-> answer, status |-> status]
       IN  IF UpdateColumns(answer, status) = {}
           THEN /\ Returns(args, <<>>, 0, 0)
                /\ UNCHANGED <<messages, added>>
           ELSE IF schema.messages # "present"
           THEN /\ Raises(args, 0)
                /\ UNCHANGED <<messages, added>>
           ELSE /\ messages' = UpdateMessageRows(messages, message_id, answer, status)
                /\ added' = [i \in DOMAIN added |->
                               IF i = message_id /\ \E m \in messages : m.id = message_id
                               THEN [added[i] EXCEPT !.updated = TRUE] ELSE added[i]]
                /\ Returns(args, <<>>, 1, 1)
  /\ UNCHANGED <<schema, conversations, conversations_id_seq, messages_id_seq, clock>>
  /\ UNCHANGED nonDbVars

get_conversation_messages ==
  /\ InBody("get_conversation_messages")
  /\ \E conversation_id \in ConvIds :
       LET args == [conversation_id |-> conversation_id]
       IN  IF schema.messages # "present"
           THEN Raises(args, 0)
           ELSE \E rows \in OrderByCreatedAsc(SelectConversationMessages(conversation_id)) :
                  Returns(args, rows, 1, 0)
  /\ UNCHANGED dbVars
  /\ UNCHANGED added
  /\ UNCHANGED nonDbVars

\* row = cursor.fetchone(); return dict(row) if row else None
get_message_by_query_id(D) ==
  /\ InBody("get_message_by_query_id")
  /\ \E query_id \in D.query_ids \cup {NONE} :
       LET args == [query_id |-> query_id]
           found == SelectByQueryId(query_id)
       IN  IF schema.messages # "present"
           THEN Raises(args, 0)
           ELSE \/ found = {} /\ Returns(args, <<>>, 1, 0)
                \/ \E m \in found :
                     Returns(args, <<[MessageColumns(m) EXCEPT !.query_id = m.query_id]>>, 1, 0)
  /\ UNCHANGED dbVars
  /\ UNCHANGED added
  /\ UNCHANGED nonDbVars

get_user_conversations(D) ==
  /\ InBody("get_user_conversations")
  /\ \E user_id \in D.users :
       LET args == [user_id |-> user_id]
       IN  IF schema.messages # "present" \/ schema.conversations = "absent"
           THEN Raises(args, 0)
           ELSE \E rows \in OrderByCreatedDesc(GroupConversations(user_id)) :
                  Returns(args, rows, 1, 0)
  /\ UNCHANGED dbVars
  /\ UNCHANGED added
  /\ UNCHANGED nonDbVars

\* Any body may raise before its statement takes effect (connection lost, SQL error);
\* the uncommitted transaction is discarded when the connection is closed.
body_raises ==
  /\ pc = "with"
  /\ Raises(<<>>, 0)
  /\ UNCHANGED dbVars
  /\ UNCHANGED added
  /\ UNCHANGED nonDbVars

----------------------------------------------------------------------------
\* scripts/clear_conversations.py

\* if conversation_count == 0 and message_count == 0: return
AlreadyEmpty == Cardinality(conversations) = 0 /\ Cardinality(messages) = 0

clear_all_conversations ==
  /\ InBody("clear_all_conversations")
  /\ IF schema.messages # "present" \/ schema.conversations = "absent"
     THEN /\ Raises(<<>>, 0)
          /\ UNCHANGED <<conversations, messages, conversations_id_seq, messages_id_seq, added>>
     ELSE IF AlreadyEmpty
     THEN /\ Returns(<<>>, <<>>, 2, 0)
          /\ UNCHANGED <<conversations, messages, conversations_id_seq, messages_id_seq, added>>
     ELSE /\ messages' = {}
          /\ conversations' = {}
          /\ conversations_id_seq' = 1
          /\ messages_id_seq' = 1
          /\ added' = <<>>
          /\ Returns(<<>>, <<>>, 8, 1)
  /\ UNCHANGED <<schema, clock>>
  /\ UNCHANGED nonDbVars

----------------------------------------------------------------------------
\* mlflow_tracing.py: log_user_satisfaction, log_review_request, log_correction

MaxAssessments == 2

LogTraceIds == {"uuid-1", "tr-1"}
LogUsers == {"u1", "u2"}
Corrections == {"fix"}

\* What the MLflow call does: it stores the assessment, or raises one of these.
MlflowErrors == {"MlflowException", "ConnectionError", "TypeError"}
MlflowOutcomes == {"ok"} \cup MlflowErrors

NoLog == [fn |-> NONE, use_mlflow |-> FALSE, outcome |-> NONE, called |-> FALSE,
          raised |-> FALSE, value |-> FALSE]

Assessment(kind, trace_id, name, value, user_id) ==
  [kind |-> kind, trace_id |-> trace_id, name |-> name, value |-> value,
   source |-> [source_type |-> "HUMAN", source_id |-> user_id]]

\* Mutant: the handler names one exception class instead of Exception.
CaughtMlflowOnly(error) == error = "MlflowException"

\* except Exception as e: every error of the MLflow call is an Exception.
Caught(error) == error \in MlflowErrors

\* try: if use_mlflow: <MLflow call>; return True  else: return False
\* except Exception: return False
LogCall(fn, assessment, use_mlflow, outcome) ==
  /\ use_mlflow /\ outcome = "ok" =>
       Cardinality(assessments \cup {assessment}) <= MaxAssessments
  /\ assessments' =
       IF use_mlflow /\ outcome = "ok" THEN assessments \cup {assessment} ELSE assessments
  /\ log_ret' =
       [fn |-> fn, use_mlflow |-> use_mlflow, outcome |-> outcome, called |-> use_mlflow,
        raised |-> use_mlflow /\ outcome # "ok" /\ ~Caught(outcome),
        value |-> use_mlflow /\ outcome = "ok"]

log_user_satisfaction ==
  /\ \E trace_id \in LogTraceIds, satisfied \in BOOLEAN, user_id \in LogUsers,
        use_mlflow \in BOOLEAN, outcome \in MlflowOutcomes :
       LogCall("log_user_satisfaction",
               Assessment("feedback", trace_id, "user_satisfaction",
                          IF satisfied THEN "True" ELSE "False", user_id),
               use_mlflow, outcome)
  /\ UNCHANGED nonTelemetryVars

log_review_request ==
  /\ \E trace_id \in LogTraceIds, user_id \in LogUsers, use_mlflow \in BOOLEAN,
        outcome \in MlflowOutcomes :
       LogCall("log_review_request",
               Assessment("feedback", trace_id, "flagged_for_review", "True", user_id),
               use_mlflow, outcome)
  /\ UNCHANGED nonTelemetryVars

log_correction ==
  /\ \E trace_id \in LogTraceIds, correction_text \in Corrections, user_id \in LogUsers,
        use_mlflow \in BOOLEAN, outcome \in MlflowOutcomes :
       LogCall("log_correction",
               Assessment("expectation", trace_id, "user_correction", correction_text,
                          user_id),
               use_mlflow, outcome)
  /\ UNCHANGED nonTelemetryVars

NextTelemetry ==
  \/ log_user_satisfaction
  \/ log_review_request
  \/ log_correction

----------------------------------------------------------------------------
\* databricks_client.py: format_response.  A Python value is a record: t is its
\* type, s a string's text, n an integer's value, items the elements of a list or
\* the values of a dict or the attribute values of an object, keys the dict keys or
\* attribute names.
\*   "dict"    a plain dict
\*   "obj"     an instance with attributes (it has __dict__, no to_dict, no get)
\*   "model"   a response object of the OpenAI client: attributes and to_dict()
\*   "bytes"   a value without attributes that json cannot serialize

Val(t, str, n, keys, items) == [t |-> t, s |-> str, n |-> n, keys |-> keys, items |-> items]
Str(x) == Val("str", x, 0, <<>>, <<>>)
PyInt(n) == Val("int", "", n, <<>>, <<>>)
None == Val("none", "", 0, <<>>, <<>>)
Bytes == Val("bytes", "", 0, <<>>, <<>>)
List(items) == Val("list", "", 0, <<>>, items)
Dict(keys, items) == Val("dict", "", 0, keys, items)
Obj(keys, items) == Val("obj", "", 0, keys, items)
Model(keys, items) == Val("model", "", 0, keys, items)

IsDict(v) == v.t = "dict"
IsList(v) == v.t = "list"
IsStr(v) == v.t = "str"
HasKey(v, k) == \E i \in DOMAIN v.keys : v.keys[i] = k
Item(v, k) == v.items[CHOOSE i \in DOMAIN v.keys : v.keys[i] = k]

\* hasattr(v, name)
HasAttr(v, name) ==
  CASE name = "get" -> v.t = "dict"
    [] name = "to_dict" -> v.t = "model"
    [] name = "__dict__" -> v.t \in {"obj", "model"}
    [] OTHER -> v.t \in {"obj", "model"} /\ HasKey(v, name)

\* "k in d" and d.get(k) of a dict
In(k, d) == HasKey(d, k)
Get(d, k) == IF HasKey(d, k) THEN Item(d, k) ELSE None

\* bool(v)
Truthy(v) ==
  CASE v.t = "str" -> v.s # ""
    [] v.t = "int" -> v.n # 0
    [] v.t = "none" -> FALSE
    [] v.t \in {"list", "dict"} -> Len(v.items) > 0
    [] OTHER -> TRUE

\* A text is a literal string, or the repr or the JSON text of a value.
Lit(x) == [how |-> "lit", s |-> x, of |-> None]
Repr(v) == [how |-> "repr", s |-> "", of |-> v]
Json(v) == [how |-> "json", s |-> "", of |-> v]

\* str(v)
StrOf(v) ==
  CASE v.t = "str" -> Lit(v.s)
    [] v.t = "int" -> Lit(ToString(v.n))
    [] v.t = "none" -> Lit("None")
    [] OTHER -> Repr(v)

\* json.loads(text): the value of a JSON text; anything else is a JSONDecodeError.
JsonTexts == {"7", "\"quoted\"", "{\"answer\": \"parsed\"}", "[\"x\"]", "null"}
JsonLoads(text) ==
  CASE text = "7" -> PyInt(7)
    [] text = "\"quoted\"" -> Str("quoted")
    [] text = "{\"answer\": \"parsed\"}" -> Dict(<<"answer">>, <<Str("parsed")>>)
    [] text = "[\"x\"]" -> List(<<Str("x")>>)
    [] text = "null" -> None

\* json.dumps(v) raises TypeError unless v is made of dict, list, str, int and None.
RECURSIVE Serializable(_)
Serializable(v) ==
  /\ v.t \in {"str", "int", "none", "list", "dict"}
  /\ \A i \in DOMAIN v.items : Serializable(v.items[i])

\* dict(v) of a value that is no dict: a list of two-element lists (or of
\* two-character strings) becomes a dict, an empty list or string the empty dict;
\* everything else raises TypeError or ValueError.
IsPair(x) ==
  \/ x.t = "list" /\ Len(x.items) = 2 /\ x.items[1].t = "str"
  \/ x.t = "str" /\ x.s \in {"ab"}
DictOfOk(v) ==
  \/ v.t = "list" /\ \A i \in DOMAIN v.items : IsPair(v.items[i])
  \/ v.t = "str" /\ v.s = ""
DictOf(v) ==
  IF v.t = "list"
  THEN Dict([i \in DOMAIN v.items |->
               IF v.items[i].t = "str" THEN "a" ELSE v.items[i].items[1].s],
            [i \in DOMAIN v.items |->
               IF v.items[i].t = "str" THEN Str("b") ELSE v.items[i].items[2]])
  ELSE Dict(<<>>, <<>>)

\* v.__dict__ and v.to_dict()
DunderDict(v) == Dict(v.keys, v.items)
RECURSIVE ToDict(_)
ToDict(v) ==
  IF v.t \in {"model", "obj"}
  THEN Dict(v.keys, [i \in DOMAIN v.items |-> ToDict(v.items[i])])
  ELSE IF v.t = "list" THEN List([i \in DOMAIN v.items |-> ToDict(v.items[i])])
  ELSE v

Returned_(text) == [called |-> TRUE, raised |-> FALSE, text |-> text]
Raised_(error) == [called |-> TRUE, raised |-> TRUE, text |-> Lit(error)]
NoFmt == [called |-> FALSE, raised |-> FALSE, text |-> Lit("")]
Miss == [hit |-> FALSE, text |-> Lit("")]
Hit(text) == [hit |-> TRUE, text |-> text]

\* Lines 294-309: a response object with an output attribute.
ObjectOutput(r) ==
  IF ~HasAttr(r, "output") THEN Miss
  ELSE LET output == Item(r, "output")
       IN  IF ~(IsList(output) /\ Len(output.items) > 0) THEN Miss
           ELSE LET content_item == output.items[1]
                IN  IF ~HasAttr(content_item, "content") THEN Miss
                    ELSE LET content == Item(content_item, "content")
                         IN  IF ~(IsList(content) /\ Len(content.items) > 0) THEN Miss
                             ELSE LET text_item == content.items[1]
                                  IN  IF HasAttr(text_item, "text")
                                      THEN Hit(StrOf(Item(text_item, "text")))
                                      ELSE IF IsDict(text_item) /\ In("text", text_item)
                                      THEN Hit(StrOf(Item(text_item, "text")))
                                      ELSE Miss

\* Mutant: a predictions string is never parsed.
ExtractPredictionsUnparsed(r) ==
  IF ~HasAttr(r, "get") THEN r
  ELSE IF Get(r, "predictions").t # "none" /\ Get(r, "predictions") # r
  THEN Get(r, "predictions") ELSE r

\* Lines 311-327: the predictions of a dict-like response replace the response.
ExtractPredictions(r) ==
  IF ~HasAttr(r, "get") THEN r
  ELSE LET predictions == Get(r, "predictions")
       IN  IF predictions.t # "none" /\ predictions # r
           THEN IF IsStr(predictions)
                THEN IF predictions.s \in JsonTexts THEN JsonLoads(predictions.s)
                     ELSE predictions
                ELSE predictions
           ELSE r

\* Lines 329-341: convert to a dict, or return str(response).
AsDict(r) ==
  IF IsDict(r) THEN [ok |-> TRUE, d |-> r]
  ELSE IF HasAttr(r, "to_dict") THEN [ok |-> TRUE, d |-> ToDict(r)]
  ELSE IF HasAttr(r, "__dict__") THEN [ok |-> TRUE, d |-> DunderDict(r)]
  ELSE IF DictOfOk(r) THEN [ok |-> TRUE, d |-> DictOf(r)]
  ELSE [ok |-> FALSE, d |-> r]

\* Lines 351-358 and 366-373: an element that is no dict becomes one if it can.
ElementAsDict(x) ==
  IF IsDict(x) THEN x
  ELSE IF HasAttr(x, "__dict__") THEN DunderDict(x)
  ELSE IF DictOfOk(x) THEN DictOf(x)
  ELSE x

\* Lines 345-379: format 1, the output list.
FormatOutput(d) ==
  IF ~In("output", d) THEN Miss
  ELSE LET output == Get(d, "output")
       IN  IF ~(IsList(output) /\ Len(output.items) > 0) THEN Miss
           ELSE LET message == ElementAsDict(output.items[1])
                IN  IF ~(IsDict(message) /\ In("content", message)) THEN Miss
                    ELSE LET content == Get(message, "content")
                         IN  IF IsList(content) /\ Len(content.items) > 0
                             THEN LET content_item == ElementAsDict(content.items[1])
                                  IN  IF IsDict(content_item) /\ In("text", content_item)
                                      THEN Hit(StrOf(Item(content_item, "text")))
                                      ELSE Miss
                             ELSE IF Truthy(content) THEN Hit(StrOf(content))
                             ELSE Miss

\* Lines 381-383: format 2.
FormatPredictions(d) ==
  IF In("predictions", d) THEN Hit(StrOf(Item(d, "predictions"))) ELSE Miss

\* Mutant: the choices are not looked at.
FormatChoicesIgnored(d) == Miss

\* Lines 385-395: format 3, OpenAI-style choices.
FormatChoices(d) ==
  IF ~In("choices", d) THEN Miss
  ELSE LET choices == Item(d, "choices")
       IN  IF ~(IsList(choices) /\ Len(choices.items) > 0) THEN Miss
           ELSE LET choice == choices.items[1]
                IN  IF ~IsDict(choice) THEN Miss
                    ELSE LET message == IF In("message", choice) THEN Item(choice, "message")
                                        ELSE Dict(<<>>, <<>>)
                         IN  IF ~IsDict(message) THEN Miss
                             ELSE LET content == Get(message, "content")
                                  IN  IF Truthy(content) THEN Hit(StrOf(content)) ELSE Miss

\* Lines 397-403: formats 4 and 5.
FormatAnswer(d) == IF In("answer", d) THEN Hit(StrOf(Item(d, "answer"))) ELSE Miss
FormatContent(d) == IF In("content", d) THEN Hit(StrOf(Item(d, "content"))) ELSE Miss

\* Lines 405-406: json.dumps(response, indent=2).
JsonDumps(d) == IF Serializable(d) THEN Returned_(Json(d)) ELSE Raised_("TypeError")

FormatDict(d) ==
  IF FormatOutput(d).hit THEN Returned_(FormatOutput(d).text)
  ELSE IF FormatPredictions(d).hit THEN Returned_(FormatPredictions(d).text)
  ELSE IF FormatChoices(d).hit THEN Returned_(FormatChoices(d).text)
  ELSE IF FormatAnswer(d).hit THEN Returned_(FormatAnswer(d).text)
  ELSE IF FormatContent(d).hit THEN Returned_(FormatContent(d).text)
  ELSE JsonDumps(d)

FormatResponse(r) ==
  IF ObjectOutput(r).hit THEN Returned_(ObjectOutput(r).text)
  ELSE LET extracted == ExtractPredictions(r)
           converted == AsDict(extracted)
       IN  IF converted.ok THEN FormatDict(converted.d)
           ELSE Returned_(StrOf(extracted))

\* The responses format_response is tried on.
TextValues == {Str("hello"), Str(""), None, PyInt(7), Bytes}
TextItems ==
  {Dict(<<"text">>, <<x>>) : x \in TextValues} \cup {Obj(<<"text">>, <<x>>) : x \in TextValues}
    \cup {Dict(<<"type">>, <<Str("output_text")>>), Str("bare")}
Contents ==
  {List(<<x>>) : x \in TextItems} \cup {List(<<>>), Str("direct"), Str(""), None}
OutputMessages ==
  {Dict(<<"content">>, <<c>>) : c \in Contents} \cup {Obj(<<"content">>, <<c>>) : c \in Contents}
    \cup {Dict(<<"role">>, <<Str("assistant")>>)}
Outputs == {List(<<m>>) : m \in OutputMessages} \cup {List(<<>>), Str("out"), None}
PredictionValues ==
  {Str(x) : x \in JsonTexts \cup {"Test answer", ""}}
    \cup {Dict(<<"answer">>, <<Str("nested")>>), List(<<Str("p")>>), PyInt(7), None, Bytes}
ChoiceValues ==
  {List(<<Dict(<<"message">>, <<Dict(<<"content">>, <<x>>)>>)>>) : x \in TextValues}
    \cup {List(<<>>), List(<<Dict(<<"index">>, <<PyInt(0)>>)>>), List(<<Str("c")>>), None}
Responses ==
  {Dict(<<"output">>, <<o>>) : o \in Outputs}
    \cup {Model(<<"output">>, <<o>>) : o \in Outputs}
    \cup {Dict(<<"predictions">>, <<x>>) : x \in PredictionValues}
    \cup {Dict(<<"choices">>, <<x>>) : x \in ChoiceValues}
    \cup {Dict(<<"answer">>, <<x>>) : x \in TextValues}
    \cup {Dict(<<"content">>, <<x>>) : x \in TextValues}
    \cup {Dict(<<"custom_field">>, <<x>>) : x \in TextValues}
    \cup {Obj(<<"custom_field">>, <<x>>) : x \in TextValues}
    \cup {Dict(<<"content", "answer", "choices", "output">>,
               <<Str("c"), Str("a"), ch, o>>) :
            ch \in {List(<<>>), List(<<Dict(<<"message">>,
                                            <<Dict(<<"content">>, <<Str("ch")>>)>>)>>)},
            o \in {List(<<>>), List(<<Dict(<<"content">>, <<Str("out")>>)>>)}}
    \cup {Dict(<<"output", "predictions">>,
               <<List(<<Dict(<<"content">>, <<Str("out")>>)>>), p>>) :
            p \in {Str("Test answer"), None, Dict(<<"answer">>, <<Str("nested")>>)}}
    \cup {Str("plain"), Str(""), Str("ab"), None, PyInt(7), Bytes, List(<<>>),
          List(<<Str("x")>>), List(<<List(<<Str("answer"), Str("paired")>>)>>)}

format_response ==
  /\ ~fmt_ret.called
  /\ fmt_ret' = FormatResponse(response)
  /\ UNCHANGED response
  /\ UNCHANGED nonFmtVars

\* The caller handles the text (or the error) and the next response arrives.
next_response ==
  /\ fmt_ret.called
  /\ response' \in Responses
  /\ fmt_ret' = NoFmt
  /\ UNCHANGED nonFmtVars

NextFormat ==
  \/ format_response
  \/ next_response

----------------------------------------------------------------------------
\* databricks_client.py: call_endpoint.  The function gets a client, builds the
\* message list from the conversation history and the question, makes one request
\* and returns the response.

MaxHistory == 2

EndpointQuestions == {"q1", "q2"}
HistoryAnswers == {NONE, "", "a1"}
HistoryRows == [question : EndpointQuestions, answer : HistoryAnswers]
Histories == UNION {[1..n -> HistoryRows] : n \in 0..MaxHistory}
EndpointResponses ==
  {Dict(<<"answer">>, <<Str("a2")>>),
   Model(<<"output">>, <<List(<<Obj(<<"content">>,
                                    <<List(<<Obj(<<"text">>, <<Str("a3")>>)>>)>>)>>)>>)}

Message(role, content) == [role |-> role, content |-> content]

\* Mutant: the conversation history is left out of the request.
BuildMessagesNoHistory(conversation_history, question) == <<Message("user", question)>>

\* Lines 82-92: for each earlier message its question and, if it has one, its
\* answer; then the current question.
RECURSIVE BuildMessages(_, _)
BuildMessages(conversation_history, question) ==
  IF Len(conversation_history) = 0 THEN <<Message("user", question)>>
  ELSE LET msg == Head(conversation_history)
           asked == <<Message("user", msg.question)>>
           answered == IF msg.answer # NONE /\ msg.answer # ""
                       THEN <<Message("assistant", msg.answer)>> ELSE <<>>
       IN  asked \o answered \o BuildMessages(Tail(conversation_history), question)

NoEndpointCall ==
  [called |-> FALSE, raised |-> FALSE, question |-> NONE, conversation_history |-> <<>>,
   openai_clients |-> 0, creates |-> 0, deploy_clients |-> 0, predicts |-> 0,
   input |-> <<>>, response |-> None, returned |-> None]

\* get_openai_client(config), line 76
GetOpenAIClient(e) == [e EXCEPT !.openai_clients = @ + 1]

\* client.responses.create(model=..., input=messages), lines 95-98
ResponsesCreate(e, input, resp) ==
  [e EXCEPT !.creates = @ + 1, !.input = input, !.response = resp]

call_endpoint ==
  /\ ~endpoint.called
  /\ \E question \in EndpointQuestions, conversation_history \in Histories,
        client \in {"ok", "raises"}, request \in {"ok", "raises"},
        resp \in EndpointResponses :
       LET e0 == [NoEndpointCall EXCEPT !.called = TRUE, !.question = question,
                                        !.conversation_history = conversation_history]
           e1 == GetOpenAIClient(e0)
           input == BuildMessages(conversation_history, question)
           e2 == ResponsesCreate(e1, input, resp)
       IN  endpoint' =
             IF client = "raises" THEN [e1 EXCEPT !.raised = TRUE]
             ELSE IF request = "raises"
             THEN [e1 EXCEPT !.raised = TRUE, !.creates = @ + 1, !.input = input]
             ELSE [e2 EXCEPT !.returned = e2.response]
  /\ UNCHANGED config
  /\ UNCHANGED nonClientVars

\* The caller takes the response (or the exception).
endpoint_done ==
  /\ endpoint.called
  /\ endpoint' = NoEndpointCall
  /\ UNCHANGED config
  /\ UNCHANGED nonClientVars

NextEndpoint ==
  \/ call_endpoint
  \/ endpoint_done

----------------------------------------------------------------------------
\* config.py: DatabricksConfig.from_config.  CONFIG_DATA is what load_config_file
\* read from config.yaml ({} without a file); a section or a key may be missing
\* or null.

EnvHosts == {NONE, "https://test.databricks.com"}
EnvEndpoints == {NONE, "test-endpoint"}
MISSING == "<missing>"
FileSections == {MISSING, NONE, "section"}
FileHosts == {MISSING, NONE, "file.databricks.com", "https://file.databricks.com"}
FileEndpoints == {MISSING, NONE, "file-endpoint"}

DefaultHost == "e2-demo-field-eng.cloud.databricks.com"
DefaultEndpointName == "mas-1ab024e9-endpoint"

\* dict.get(key, default)
GetOr(value, default) == IF value = MISSING THEN default ELSE value

\* host.startswith("http")
StartsWithHttp(host) == host \in {"https://file.databricks.com", "https://test.databricks.com"}

\* f"https://{host}"
WithHttps(host) == "https://" \o host

NoConfig ==
  [environ |-> [DATABRICKS_HOST |-> NONE, ENDPOINT_NAME |-> NONE],
   file |-> [databricks |-> MISSING, host |-> MISSING, endpoint_name |-> MISSING],
   loaded |-> FALSE, raised |-> FALSE, host |-> NONE, endpoint_name |-> NONE]

\* Lines 31-36: the host of the databricks section, with https:// put in front.
FromConfigHost(file) ==
  LET host == IF file.databricks = MISSING THEN DefaultHost
              ELSE GetOr(file.host, DefaultHost)
  IN  IF StartsWithHttp(host) THEN host ELSE WithHttps(host)

\* Line 40
FromConfigEndpointName(file) ==
  IF file.databricks = MISSING THEN DefaultEndpointName
  ELSE GetOr(file.endpoint_name, DefaultEndpointName)

\* A null section has no get, and a null host has no startswith: AttributeError.
FromConfigRaises(file) ==
  \/ file.databricks = NONE
  \/ file.databricks = "section" /\ file.host = NONE

\* The process starts: environment and file are what they are.
set_environment ==
  /\ \E h \in EnvHosts, e \in EnvEndpoints, section \in FileSections, fh \in FileHosts,
        fe \in FileEndpoints :
       config' = [NoConfig EXCEPT
                    !.environ = [DATABRICKS_HOST |-> h, ENDPOINT_NAME |-> e],
                    !.file = [databricks |-> section,
                              host |-> IF section = "section" THEN fh ELSE MISSING,
                              endpoint_name |-> IF section = "section" THEN fe
                                                ELSE MISSING]]
  /\ UNCHANGED endpoint
  /\ UNCHANGED nonClientVars

from_config ==
  /\ ~config.loaded
  /\ config' =
       IF FromConfigRaises(config.file)
       THEN [config EXCEPT !.loaded = TRUE, !.raised = TRUE]
       ELSE [config EXCEPT !.loaded = TRUE, !.host = FromConfigHost(config.file),
                           !.endpoint_name = FromConfigEndpointName(config.file)]
  /\ UNCHANGED endpoint
  /\ UNCHANGED nonClientVars

NextConfig ==
  \/ set_environment
  \/ from_config

----------------------------------------------------------------------------
\* app.py: the browser sessions.  Each session has its own st.session_state and at
\* most one script run at a time; a helper call made by the page either returns or
\* raises (the database cannot be reached); an exception the page does not catch
\* ends the script run.

MaxQuestions == 1

Sessions == {"s1", "s2"}
Questions == {"q1"}
StreamedAnswers == {"a1", ""}

\* What a session does and what its calls may do.
SubmitInputs ==
  [sessions |-> {"s1"}, users |-> {"u1"}, enabled |-> BOOLEAN, db |-> {"ok", "raises"},
   requests |-> {"ok", "client_raises", "request_raises"}, consumes |-> {"ok", "raises"},
   answers |-> StreamedAnswers,
   responses |-> {Dict(<<"answer">>, <<Str("a2")>>), Dict(<<"custom_field">>, <<Bytes>>)},
   traced |-> {"none", "tr", "req"}, setups |-> {"ok", "raises"},
   lookups |-> {"experiment_missing", "no_traces", "error", "found"},
   buttons |-> {"satisfied"}, mlflow |-> {"ok"}]

\* Two sessions of one user on a database and an endpoint that work.
SessionInputs ==
  [sessions |-> Sessions, users |-> {"u1"}, enabled |-> {TRUE}, db |-> {"ok"},
   requests |-> {"ok", "request_raises"}, consumes |-> {"ok"}, answers |-> {"a1"},
   responses |-> {Dict(<<"answer">>, <<Str("a2")>>)},
   traced |-> {"none", "tr"}, setups |-> {"ok"}, lookups |-> {"no_traces", "found"},
   buttons |-> {"satisfied", "review", "correction"}, mlflow |-> {"ok"}]

\* Sessions of two users on a database and an endpoint that work.
UserInputs ==
  [sessions |-> Sessions, users |-> {"u1", "u2"}, enabled |-> {TRUE}, db |-> {"ok"},
   requests |-> {"ok", "request_raises"}, consumes |-> {"ok"}, answers |-> {"a1"},
   responses |-> {Dict(<<"answer">>, <<Str("a2")>>)},
   traced |-> {"none"}, setups |-> {"ok"}, lookups |-> {"no_traces"},
   buttons |-> {"satisfied"}, mlflow |-> {"ok"}]

\* One session whose sidebar is rendered while time passes.
SidebarInputs ==
  [sessions |-> {"s1"}, users |-> {"u1"}, enabled |-> {TRUE}, db |-> {"ok", "raises"},
   requests |-> {"ok"}, consumes |-> {"ok"}, answers |-> {"a1"},
   responses |-> {Dict(<<"answer">>, <<Str("a2")>>)},
   traced |-> {"none"}, setups |-> {"ok"}, lookups |-> {"no_traces"},
   buttons |-> {"satisfied"}, mlflow |-> {"ok"}]

\* initialize_session_state; submitted counts the questions of the session.
NewSession ==
  [started |-> FALSE, db_enabled |-> FALSE, conversation_id |-> 0, messages |-> <<>>,
   last_trace_id |-> NONE, conversation_trace_set |-> FALSE, user_id |-> NONE,
   submitted |-> 0]

NoRun ==
  [pc |-> "idle", question |-> NONE, answer |-> NONE, trace_id |-> NONE,
   local_trace_id |-> NONE, stream |-> NONE, telemetry |-> NONE, message_id |-> 0,
   error |-> NONE, requests |-> 0, response |-> None, answer_from |-> NONE,
   shown_error |-> FALSE]

\* The most recent trace of the MLflow experiment and the request that produced it.
NoTrace == [request_id |-> NONE, session |-> NONE, question |-> 0]

\* str(uuid.uuid4()): a value no other call returns.
Uuid(s, n) == "uuid-" \o s \o "-" \o ToString(n)

\* The ID MLflow gives the trace of a request made for question n of session s.
TraceId(form, s, n) == form \o "-" \o s \o "-" \o ToString(n)
MlflowTraceIds == {TraceId("tr", s, n) : s \in Sessions, n \in 1..MaxQuestions}

\* mlflow_trace_id.startswith("tr-")
StartsWithTr(id) == id \in MlflowTraceIds

\* Mutant: the test is "is not None".
NotNone(text) == text # NONE

\* truthiness of an Optional[str]
NonEmpty(text) == text # NONE /\ text # ""

\* get_most_recent_trace_id: every failure inside it becomes None.
GetMostRecentTraceId(outcome, request_id) ==
  CASE outcome = "experiment_missing" -> NONE
    [] outcome = "no_traces" -> NONE
    [] outcome = "error" -> NONE
    [] outcome = "found" -> request_id
LookupOutcomes == {"experiment_missing", "no_traces", "error", "found"}

\* Mutant: whatever the lookup returned replaces the trace ID.
ChooseTraceIdAlways(trace_id, mlflow_trace_id) == mlflow_trace_id

\* if mlflow_trace_id and mlflow_trace_id.startswith("tr-"): trace_id = mlflow_trace_id
ChooseTraceId(trace_id, mlflow_trace_id) ==
  IF mlflow_trace_id # NONE /\ StartsWithTr(mlflow_trace_id) THEN mlflow_trace_id
  ELSE trace_id

Abort(r, error) == [r EXCEPT !.pc = "aborted", !.error = error]

\* No script run of the session is handling a question.
BetweenRuns(s) == run[s].pc \in {"idle", "done", "aborted"}

\* Questions being handled; each may still need a message ID.
InFlight == Cardinality({s \in Sessions : ~BetweenRuns(s)})

\* A script run while the database is not enabled: the first run also authenticates
\* the user; check_database_connection, then init_database.
start_session(s, D) ==
  /\ ~session[s].db_enabled
  /\ BetweenRuns(s)
  /\ \E db_enabled \in D.enabled, user_id \in D.users :
       /\ session' = [session EXCEPT ![s].started = TRUE, ![s].db_enabled = db_enabled,
                                     ![s].user_id = IF session[s].started
                                                    THEN session[s].user_id ELSE user_id]
       /\ IF db_enabled
          THEN LET d == InitStatements(Database)
               IN  /\ schema' = d.schema
                   /\ conversations' = d.conversations
                   /\ messages' = d.messages
          ELSE UNCHANGED <<schema, conversations, messages>>
  /\ run' = [run EXCEPT ![s] = NoRun]
  /\ UNCHANGED <<conversations_id_seq, messages_id_seq, clock, experiment>>
  /\ UNCHANGED nonAppVars

\* conversations_cache = None, and the list a query stored in it.
NoCache == [set |-> FALSE, rows |-> <<>>]
Cached(rows) == [set |-> TRUE, rows |-> rows]

\* conversations_last_fetch = None; time.time() is never negative.
NoFetch == 0 - 1

\* initialize_session_state: the cache, and what the last render of the sidebar did.
NoSidebar ==
  [conversations_cache |-> NoCache, conversations_last_fetch |-> NoFetch,
   render_bit |-> FALSE, rendered_at |-> 0, queried |-> FALSE, shown |-> <<>>]

\* The New Conversation button.
new_conversation(s, D) ==
  /\ session[s].started
  /\ session[s].db_enabled
  /\ BetweenRuns(s)
  /\ conversations_id_seq <= MaxConvs
  /\ conversations_id_seq' = conversations_id_seq + 1
  /\ run' = [run EXCEPT ![s] = NoRun]
  /\ \E db \in D.db :
       IF db = "ok"
       THEN /\ conversations' = conversations \cup
                 {ConvRow(conversations_id_seq, session[s].user_id, NONE)}
            /\ session' = [session EXCEPT ![s].conversation_id = conversations_id_seq,
                                          ![s].messages = <<>>]
            /\ sidebar' = [sidebar EXCEPT ![s].conversations_cache = NoCache]
       ELSE UNCHANGED <<conversations, session, sidebar>>
  /\ UNCHANGED <<schema, messages, messages_id_seq, clock, experiment, now>>
  /\ UNCHANGED <<connVars, added, telemetryVars, fmtVars, clientVars>>

\* A conversation button of the sidebar: the list holds the user's conversations.
select_conversation(s, D) ==
  /\ session[s].started
  /\ session[s].db_enabled
  /\ BetweenRuns(s)
  /\ run' = [run EXCEPT ![s] = NoRun]
  /\ \E c \in conversations, db \in D.db :
       /\ c.user_id = session[s].user_id
       /\ IF db = "ok"
          THEN \E rows \in OrderByCreatedAsc(SelectConversationMessages(c.id)) :
                 session' = [session EXCEPT ![s].conversation_id = c.id,
                                            ![s].messages = rows]
          ELSE session' = [session EXCEPT ![s].conversation_id = c.id]
  /\ UNCHANGED <<dbVars, experiment>>
  /\ UNCHANGED nonAppVars

\* Lines 481-486: a script run with an empty message list loads the messages of
\* the current conversation.
render_messages(s, D) ==
  /\ session[s].db_enabled
  /\ session[s].conversation_id # 0
  /\ BetweenRuns(s)
  /\ Len(session[s].messages) = 0
  /\ SelectConversationMessages(session[s].conversation_id) # {}
  /\ \E rows \in OrderByCreatedAsc(SelectConversationMessages(session[s].conversation_id)) :
       session' = [session EXCEPT ![s].messages = rows]
  /\ run' = [run EXCEPT ![s] = NoRun]
  /\ UNCHANGED <<dbVars, experiment>>
  /\ UNCHANGED nonAppVars

\* The form is submitted with a question: create the conversation if needed.
submit(s, D) ==
  /\ session[s].started
  /\ BetweenRuns(s)
  /\ session[s].submitted < MaxQuestions
  /\ messages_id_seq + InFlight <= MaxMsgs
  /\ \E question \in Questions :
       LET r == [NoRun EXCEPT !.question = question]
           t == [session[s] EXCEPT !.submitted = @ + 1]
       IN  IF session[s].db_enabled /\ session[s].conversation_id = 0
           THEN /\ conversations_id_seq <= MaxConvs
                /\ conversations_id_seq' = conversations_id_seq + 1
                /\ \E db \in D.db :
                     IF db = "ok"
                     THEN /\ conversations' = conversations \cup
                               {ConvRow(conversations_id_seq, session[s].user_id, NONE)}
                          /\ session' = [session EXCEPT ![s] =
                               [t EXCEPT !.conversation_id = conversations_id_seq]]
                          /\ run' = [run EXCEPT ![s] = [r EXCEPT !.pc = "stream"]]
                     ELSE /\ UNCHANGED conversations
                          /\ session' = [session EXCEPT ![s] = t]
                          /\ run' = [run EXCEPT ![s] = Abort(r, "database")]
           ELSE /\ session' = [session EXCEPT ![s] = t]
                /\ run' = [run EXCEPT ![s] = [r EXCEPT !.pc = "stream"]]
                /\ UNCHANGED <<conversations, conversations_id_seq>>
  /\ UNCHANGED <<schema, messages, messages_id_seq, clock, experiment>>
  /\ UNCHANGED nonAppVars

\* The answer the page shows for the text format_response returned.
Rendered(text) == IF text.how = "lit" THEN text.s ELSE text.how

\* One request reaches the serving endpoint; the endpoint may log a trace of it,
\* which becomes the most recent trace of the experiment.
Logged(traced, s) ==
  IF traced = "none" THEN experiment
  ELSE [request_id |-> TraceId(traced, s, session[s].submitted), session |-> s,
        question |-> session[s].submitted]

\* call_endpoint followed by format_response, as both fallbacks run them:
\* get_openai_client or the request may raise, and so may format_response.
NonStreaming(r, request, resp) ==
  IF request = "client_raises" THEN [r EXCEPT !.answer_from = NONE]
  ELSE IF request = "request_raises"
  THEN [r EXCEPT !.requests = @ + 1, !.answer_from = NONE]
  ELSE [r EXCEPT !.requests = @ + 1, !.response = resp,
                 !.answer_from = IF FormatResponse(resp).raised THEN NONE ELSE "call_endpoint",
                 !.answer = IF FormatResponse(resp).raised THEN r.answer
                            ELSE Rendered(FormatResponse(resp).text)]

\* call_endpoint_stream, lines 126-179: the streaming request is created and a
\* local trace ID generated; any exception is handled by the function itself.
call_endpoint_stream(s, D) ==
  /\ run[s].pc = "stream"
  /\ \E request \in D.requests, traced \in D.traced :
       /\ run' = [run EXCEPT ![s] =
            IF request = "ok"
            THEN [@ EXCEPT !.pc = "write_stream", !.requests = @ + 1,
                           !.trace_id = Uuid(s, session[s].submitted),
                           !.local_trace_id = Uuid(s, session[s].submitted)]
            ELSE [@ EXCEPT !.pc = "stream_fallback", !.stream = "inner_fallback",
                           !.requests = IF request = "client_raises" THEN @ ELSE @ + 1]]
       /\ experiment' = IF request = "client_raises" THEN experiment
                        ELSE Logged(traced, s)
  /\ UNCHANGED session
  /\ UNCHANGED dbVars
  /\ UNCHANGED nonAppVars

\* call_endpoint_stream, lines 181-193: call_endpoint and format_response; the
\* formatted text is returned as a one-chunk stream with trace_id None, and
\* st.write_stream returns it.  An exception here reaches the page.
call_endpoint_stream_fallback(s, D) ==
  /\ run[s].pc = "stream_fallback"
  /\ \E request \in D.requests, traced \in D.traced, resp \in D.responses :
       LET r == NonStreaming(run[s], request, resp)
       IN  /\ run' = [run EXCEPT ![s] =
                IF r.answer_from = NONE
                THEN [r EXCEPT !.pc = "fallback", !.stream = "raises"]
                ELSE [r EXCEPT !.pc = "telemetry", !.answer_from = "inner"]]
           /\ experiment' = IF request = "client_raises" THEN experiment
                            ELSE Logged(traced, s)
  /\ UNCHANGED session
  /\ UNCHANGED dbVars
  /\ UNCHANGED nonAppVars

\* st.write_stream(stream_generator): the chunks are consumed and joined, or the
\* stream raises while it is consumed and the exception reaches the page.
write_stream(s, D) ==
  /\ run[s].pc = "write_stream"
  /\ \E consume \in D.consumes, answer \in D.answers :
       run' = [run EXCEPT ![s] =
         IF consume = "ok"
         THEN [@ EXCEPT !.pc = "telemetry", !.stream = "streamed", !.answer = answer,
                        !.answer_from = "stream"]
         ELSE [@ EXCEPT !.pc = "fallback", !.stream = "raises"]]
  /\ UNCHANGED <<session, experiment>>
  /\ UNCHANGED dbVars
  /\ UNCHANGED nonAppVars

\* Lines 797-813: remember the trace ID and look for the MLflow trace ID.
fetch_mlflow_trace_id(s, D) ==
  /\ run[s].pc = "telemetry"
  /\ IF run[s].trace_id = NONE
     THEN /\ run' = [run EXCEPT ![s].pc = "save", ![s].telemetry = "skipped"]
          /\ UNCHANGED session
     ELSE \E setup \in D.setups, lookup \in D.lookups :
            /\ lookup = "found" => experiment.request_id # NONE
            /\ lookup = "no_traces" => experiment.request_id = NONE
            /\ IF setup = "raises"
               THEN /\ run' = [run EXCEPT ![s].pc = "save", ![s].telemetry = "setup_raises"]
                    /\ session' = [session EXCEPT ![s].last_trace_id = run[s].trace_id]
               ELSE LET mlflow_trace_id == GetMostRecentTraceId(lookup, experiment.request_id)
                        trace_id == ChooseTraceId(run[s].trace_id, mlflow_trace_id)
                    IN  /\ run' = [run EXCEPT ![s].pc = "save", ![s].trace_id = trace_id,
                                              ![s].telemetry =
                                                IF lookup # "found" THEN lookup
                                                ELSE IF StartsWithTr(mlflow_trace_id)
                                                THEN "found" ELSE "other_id"]
                        /\ session' = [session EXCEPT ![s].last_trace_id = trace_id]
  /\ UNCHANGED experiment
  /\ UNCHANGED dbVars
  /\ UNCHANGED nonAppVars

\* Mutant: the handler keeps the trace ID call_endpoint_stream returned.
StreamErrorTraceIdKept(trace_id) == trace_id

\* except Exception as stream_error: trace_id = None
StreamErrorTraceId(trace_id) == NONE

\* Mutant: the last handler swallows the exception without a message.
FallbackFailedSilently(r) == [r EXCEPT !.pc = "save", !.answer = NONE]

\* except Exception as e: st.error(...); st.info(...); answer = None
FallbackFailed(r) == [r EXCEPT !.pc = "save", !.answer = NONE, !.shown_error = TRUE]

\* Lines 815-829: the page's own fallback to call_endpoint and format_response.
fallback_answer(s, D) ==
  /\ run[s].pc = "fallback"
  /\ \E request \in D.requests, traced \in D.traced, resp \in D.responses :
       LET r == NonStreaming([run[s] EXCEPT !.trace_id = StreamErrorTraceId(@)], request, resp)
       IN  /\ run' = [run EXCEPT ![s] =
                IF r.answer_from = NONE
                THEN FallbackFailed(r)
                ELSE [r EXCEPT !.pc = "save", !.answer_from = "app"]]
           /\ experiment' = IF request = "client_raises" THEN experiment
                            ELSE Logged(traced, s)
  /\ UNCHANGED session
  /\ UNCHANGED dbVars
  /\ UNCHANGED nonAppVars

\* Lines 831-850: add_message, then update_conversation_trace for the first trace.
save_message(s, D) ==
  /\ run[s].pc = "save"
  /\ IF session[s].db_enabled /\ NonEmpty(run[s].answer)
     THEN /\ messages_id_seq <= MaxMsgs
          /\ messages_id_seq' = messages_id_seq + 1
          /\ \E add \in D.db, update \in D.db :
               LET final_trace_id == run[s].trace_id
                   stored == add = "ok"
                               /\ \E c \in conversations : c.id = session[s].conversation_id
                   set_trace == stored /\ final_trace_id # NONE
                                  /\ ~session[s].conversation_trace_set
               IN  /\ ~set_trace => update = "ok"
                   /\ messages' =
                        IF stored
                        THEN messages \cup
                               {MsgRow(messages_id_seq, session[s].conversation_id,
                                       session[s].user_id, run[s].question, run[s].answer,
                                       "complete", NONE, final_trace_id)}
                        ELSE messages
                   /\ IF ~stored THEN /\ run' = [run EXCEPT ![s] = Abort(@, "database")]
                                      /\ UNCHANGED <<conversations, session>>
                      ELSE IF ~set_trace
                      THEN /\ run' = [run EXCEPT ![s].pc = "reload",
                                                 ![s].message_id = messages_id_seq]
                           /\ UNCHANGED <<conversations, session>>
                      ELSE IF update = "raises"
                      THEN /\ run' = [run EXCEPT ![s] =
                                Abort([@ EXCEPT !.message_id = messages_id_seq], "database")]
                           /\ UNCHANGED <<conversations, session>>
                      ELSE /\ run' = [run EXCEPT ![s].pc = "reload",
                                                 ![s].message_id = messages_id_seq]
                           /\ conversations' =
                                SetConversationTrace(conversations,
                                                     session[s].conversation_id, final_trace_id)
                           /\ session' = [session EXCEPT ![s].conversation_trace_set = TRUE]
     ELSE /\ run' = [run EXCEPT ![s].pc = "reload"]
          /\ UNCHANGED <<conversations, messages, messages_id_seq, session>>
  /\ UNCHANGED <<schema, conversations_id_seq, clock, experiment>>
  /\ UNCHANGED nonAppVars

\* Lines 852-858: reload the messages of the conversation, then st.rerun().
reload_messages(s, D) ==
  /\ run[s].pc = "reload"
  /\ IF session[s].db_enabled /\ session[s].conversation_id # 0
     THEN \E db \in D.db :
            IF db = "ok"
            THEN \E rows \in OrderByCreatedAsc(
                               SelectConversationMessages(session[s].conversation_id)) :
                   /\ session' = [session EXCEPT ![s].messages = rows]
                   /\ run' = [run EXCEPT ![s].pc = "done"]
            ELSE /\ run' = [run EXCEPT ![s] = Abort(@, "database")]
                 /\ UNCHANGED session
     ELSE /\ run' = [run EXCEPT ![s].pc = "done"]
          /\ UNCHANGED session
  /\ UNCHANGED <<dbVars, experiment>>
  /\ UNCHANGED nonAppVars

\* The row of the database a displayed message was read from.
StoredMessage(id) == CHOOSE m \in messages : m.id = id

FeedbackButtons == {"satisfied", "not_satisfied", "review", "correction"}

\* Lines 599-763: the feedback buttons under the last message of the list.  The
\* trace ID is the session's last_trace_id; nothing is logged without one.
give_feedback(s, D) ==
  /\ BetweenRuns(s)
  /\ Len(session[s].messages) > 0
  /\ LET last_msg == session[s].messages[Len(session[s].messages)]
         trace_id == session[s].last_trace_id
         user_id == session[s].user_id
     IN  /\ NonEmpty(last_msg.answer)
         /\ \E button \in D.buttons, correction_text \in Corrections, outcome \in D.mlflow :
              IF ~NonEmpty(trace_id) THEN UNCHANGED telemetryVars
              ELSE CASE button = "satisfied" ->
                          LogCall("log_user_satisfaction",
                                  Assessment("feedback", trace_id, "user_satisfaction",
                                             "True", user_id), TRUE, outcome)
                     [] button = "not_satisfied" ->
                          LogCall("log_user_satisfaction",
                                  Assessment("feedback", trace_id, "user_satisfaction",
                                             "False", user_id), TRUE, outcome)
                     [] button = "review" ->
                          LogCall("log_review_request",
                                  Assessment("feedback", trace_id, "flagged_for_review",
                                             "True", user_id), TRUE, outcome)
                     [] button = "correction" ->
                          LogCall("log_correction",
                                  Assessment("expectation", trace_id, "user_correction",
                                             correction_text, user_id), TRUE, outcome)
  /\ run' = [run EXCEPT ![s] = NoRun]
  /\ UNCHANGED <<dbVars, connVars, added, fmtVars, clientVars, sidebarVars, session, experiment>>

\* A submitted question, from the form to st.rerun().
NextQuestion(D) ==
  \E s \in D.sessions :
    \/ submit(s, D)
    \/ call_endpoint_stream(s, D)
    \/ call_endpoint_stream_fallback(s, D)
    \/ write_stream(s, D)
    \/ fetch_mlflow_trace_id(s, D)
    \/ fallback_answer(s, D)
    \/ save_message(s, D)
    \/ reload_messages(s, D)

NextSubmit ==
  \/ \E s \in SubmitInputs.sessions : start_session(s, SubmitInputs)
  \/ \E s \in SubmitInputs.sessions : new_conversation(s, SubmitInputs)
  \/ NextQuestion(SubmitInputs)

\* The sidebar's conversation list, lines 369-405.
MaxTime == 7

\* Cache conversations for 5 seconds; LIMIT 5
CacheSeconds == 5
ListLimit == 5

\* MAX(m.created_at), NULL without messages; NULL is written as NoFetch.
LastMessageAt(c) ==
  LET at == {m.created_at : m \in {x \in messages : x.conversation_id = c.id}}
  IN  IF at = {} THEN NoFetch ELSE CHOOSE a \in at : \A b \in at : b <= a

\* MAX(COALESCE(m.created_at, c.created_at))
LastActivity(c) == IF LastMessageAt(c) = NoFetch THEN c.created_at ELSE LastMessageAt(c)

\* SELECT c.id, c.created_at, COUNT(m.id), MAX(m.created_at) ... WHERE c.user_id = %s
\* GROUP BY c.id, c.created_at
SidebarRow(c) ==
  [id |-> c.id, created_at |-> c.created_at,
   message_count |-> Cardinality({m \in messages : m.conversation_id = c.id}),
   last_message_at |-> LastMessageAt(c)]

\* ORDER BY MAX(COALESCE(m.created_at, c.created_at)) DESC LIMIT 5: the lists the
\* query may return.
SidebarLists(user_id) ==
  LET cs == {c \in conversations : c.user_id = user_id}
      orders == {f \in Perms(cs) :
                   \A i \in 1..(Cardinality(cs) - 1) :
                     LastActivity(f[i]) >= LastActivity(f[i + 1])}
      Limit(f) == IF Len(f) <= ListLimit THEN f ELSE SubSeq(f, 1, ListLimit)
  IN  {[i \in DOMAIN Limit(f) |-> SidebarRow(Limit(f)[i])] : f \in orders}

\* Mutant: the cache expires when 5 seconds have passed.
CacheExpiredAtLimit(current_time, last_fetch) == current_time - last_fetch >= CacheSeconds

\* (current_time - st.session_state.conversations_last_fetch) > 5
CacheExpired(current_time, last_fetch) == current_time - last_fetch > CacheSeconds

\* Lines 374-378: the list is fetched again.
MustFetch(b, current_time) ==
  \/ ~b.conversations_cache.set
  \/ b.conversations_last_fetch = NoFetch
  \/ CacheExpired(current_time, b.conversations_last_fetch)

\* A script run renders the sidebar of a session whose database is enabled: the
\* list is fetched or taken from the cache; a failed query only shows a warning.
render_sidebar(s, D) ==
  /\ session[s].db_enabled
  /\ BetweenRuns(s)
  /\ LET b == [sidebar[s] EXCEPT !.render_bit = ~@, !.rendered_at = now]
     IN  IF MustFetch(sidebar[s], now)
         THEN \E db \in D.db :
                IF db = "ok"
                THEN \E rows \in SidebarLists(session[s].user_id) :
                       sidebar' = [sidebar EXCEPT ![s] =
                         [b EXCEPT !.conversations_cache = Cached(rows),
                                   !.conversations_last_fetch = now,
                                   !.queried = TRUE, !.shown = rows]]
                ELSE sidebar' = [sidebar EXCEPT ![s] =
                       [b EXCEPT !.queried = TRUE, !.shown = <<>>]]
         ELSE sidebar' = [sidebar EXCEPT ![s] =
                [b EXCEPT !.queried = FALSE, !.shown = b.conversations_cache.rows]]
  /\ UNCHANGED <<dbVars, connVars, added, telemetryVars, fmtVars, clientVars, appVars, now>>

\* A second passes.
advance_time ==
  /\ now < MaxTime
  /\ now' = now + 1
  /\ UNCHANGED <<dbVars, connVars, added, telemetryVars, fmtVars, clientVars, appVars,
                 sidebar>>

NextSidebar ==
  \/ \E s \in SidebarInputs.sessions : start_session(s, SidebarInputs)
  \/ \E s \in SidebarInputs.sessions : new_conversation(s, SidebarInputs)
  \/ \E s \in SidebarInputs.sessions : render_sidebar(s, SidebarInputs)
  \/ advance_time

\* scripts/clear_conversations.py run while sessions are open: its transaction,
\* committed as a whole, deletes every row and restarts both sequences.
run_clear_all_conversations ==
  /\ schema.messages = "present"
  /\ schema.conversations # "absent"
  /\ ~AlreadyEmpty
  /\ messages' = {}
  /\ conversations' = {}
  /\ conversations_id_seq' = 1
  /\ messages_id_seq' = 1
  /\ UNCHANGED <<schema, clock>>
  /\ UNCHANGED appVars
  /\ UNCHANGED nonAppVars

NextUsers ==
  \/ \E s \in UserInputs.sessions : start_session(s, UserInputs)
  \/ \E s \in UserInputs.sessions : new_conversation(s, UserInputs)
  \/ \E s \in UserInputs.sessions : select_conversation(s, UserInputs)
  \/ NextQuestion(UserInputs)
  \/ run_clear_all_conversations

NextSessions ==
  \/ \E s \in SessionInputs.sessions : start_session(s, SessionInputs)
  \/ \E s \in SessionInputs.sessions : new_conversation(s, SessionInputs)
  \/ \E s \in SessionInputs.sessions : select_conversation(s, SessionInputs)
  \/ \E s \in SessionInputs.sessions : render_messages(s, SessionInputs)
  \/ \E s \in SessionInputs.sessions : give_feedback(s, SessionInputs)
  \/ NextQuestion(SessionInputs)

----------------------------------------------------------------------------
\* Time passes between calls.
Tick ==
  /\ pc = "idle"
  /\ clock < MaxClock
  /\ clock' = clock + 1
  /\ UNCHANGED <<schema, conversations, messages, conversations_id_seq, messages_id_seq>>
  /\ UNCHANGED <<pc, call, openConns, credUses, ret, added>>
  /\ UNCHANGED nonDbVars

\* The database the process finds: none yet, or one left by the version without
\* the mlflow_trace_id column, holding a conversation and a message.
Init ==
  /\ clock = 0
  /\ \/ /\ schema = NoSchema
        /\ conversations = {}
        /\ messages = {}
        /\ conversations_id_seq = 1
        /\ messages_id_seq = 1
     \/ /\ schema = LegacySchema
        /\ conversations = {[id |-> 1, user_id |-> "u1", mlflow_trace_id |-> NONE,
                             created_at |-> 0]}
        /\ messages = {[id |-> 1, conversation_id |-> 1, user_id |-> "u1",
                        question |-> "q1", answer |-> "a1", status |-> "complete",
                        query_id |-> NONE, trace_id |-> NONE, created_at |-> 0,
                        updated_at |-> 0]}
        /\ conversations_id_seq = 2
        /\ messages_id_seq = 2
  /\ pc = "idle"
  /\ call = NoCall
  /\ openConns = 0
  /\ credUses = 0
  /\ ret = NoRet
  /\ added = <<>>
  /\ assessments = {}
  /\ log_ret = NoLog
  /\ response = None
  /\ fmt_ret = NoFmt
  /\ session = [s \in Sessions |-> NewSession]
  /\ run = [s \in Sessions |-> NoRun]
  /\ experiment = NoTrace
  /\ sidebar = [s \in Sessions |-> NoSidebar]
  /\ now = 0
  /\ endpoint = NoEndpointCall
  /\ config = NoConfig

\* A database that does not exist yet: every conversation is made by create_conversation.
InitFresh == Init /\ schema = NoSchema

\* One helper call: connect, run the body, close.
Protocol(ops) ==
  \/ \E op \in ops : get_connection(op)
  \/ get_connection_raises
  \/ body_raises
  \/ conn_close

Next ==
  \/ Protocol(Callers)
  \/ init_database
  \/ create_conversation(Plain)
  \/ update_conversation_trace(Plain)
  \/ add_message(Plain)
  \/ update_message(Plain)
  \/ get_conversation_messages
  \/ get_message_by_query_id(Plain)
  \/ get_user_conversations(Plain)
  \/ clear_all_conversations

Spec == Init /\ [][Next]_vars

SpecTelemetry == InitFresh /\ [][NextTelemetry]_vars

SpecFormat == InitFresh /\ [][NextFormat]_vars

\* Time passes between two script runs of the sessions.
TickBetweenRuns ==
  /\ Tick
  /\ \A s \in Sessions : BetweenRuns(s)
  /\ \E s \in Sessions : run[s].pc \in {"done", "aborted"}

SpecEndpoint == InitFresh /\ [][NextEndpoint]_vars

SpecConfig == InitFresh /\ [][NextConfig]_vars

SpecSubmit == InitFresh /\ [][NextSubmit \/ TickBetweenRuns]_vars

\* The questions of one session.  A script run that handles a question goes on
\* until it ends: the interpreter executes the next statement.
NextSubmitOnly ==
  \/ \E s \in SubmitInputs.sessions : start_session(s, SubmitInputs)
  \/ NextQuestion(SubmitInputs)

SpecSubmitFair ==
  InitFresh /\ [][NextSubmitOnly]_vars /\ WF_vars(NextQuestion(SubmitInputs))

SpecSidebar == InitFresh /\ [][NextSidebar]_vars

SpecUsers == InitFresh /\ [][NextUsers]_vars

SpecSessions == InitFresh /\ [][NextSessions \/ TickBetweenRuns]_vars

----------------------------------------------------------------------------
\* Writing and reading messages of several conversations.
RoundTripCallers ==
  {"init_database", "create_conversation", "add_message", "update_message",
   "get_conversation_messages", "clear_all_conversations"}

NextRoundTrip ==
  \/ Protocol(RoundTripCallers)
  \/ init_database
  \/ create_conversation(RoundTripInputs)
  \/ add_message(RoundTripInputs)
  \/ update_message(RoundTripInputs)
  \/ get_conversation_messages
  \/ clear_all_conversations

SpecRoundTrip == InitFresh /\ [][NextRoundTrip]_vars

\* Updating messages over time.
UpdateCallers == {"init_database", "add_message", "update_message"}

NextUpdate ==
  \/ Protocol(UpdateCallers)
  \/ init_database
  \/ add_message(UpdateInputs)
  \/ update_message(UpdateInputs)
  \/ Tick

SpecUpdate == Init /\ [][NextUpdate]_vars

\* The conversation list with several users and creation times.
ConversationCallers ==
  {"init_database", "create_conversation", "add_message", "get_user_conversations"}

NextConversations ==
  \/ Protocol(ConversationCallers)
  \/ init_database
  \/ create_conversation(ConversationInputs)
  \/ add_message(ConversationInputs)
  \/ get_user_conversations(ConversationInputs)
  \/ Tick

SpecConversations == Init /\ [][NextConversations]_vars

----------------------------------------------------------------------------
\* Claims about the connection protocol, the schema and the clearing script (Spec)

Finished(op) == pc = "finally" /\ call.op = op
Returned(op) == Finished(op) /\ ~ret.raised

\* C4: every persistence helper generates one new credential, opens exactly one
\* connection with it, and that connection is closed when the helper has returned,
\* normally or by raising: no connection is open between calls and no credential
\* serves more than one connection.
C4_ConnectionProtocol ==
  /\ pc = "idle" => openConns = 0
  /\ credUses <= 1
  /\ (pc \in {"with", "finally"} /\ call.op \in Helpers) =>
       (call.creds = 1 /\ call.conns = 1 /\ openConns = 1 /\ credUses = 1)

\* A helper body has raised and its connection is about to be closed.
C4_Witness ==
  /\ Finished("add_message")
  /\ ret.raised
  /\ openConns = 1

\* C5 as stated: the connection a helper call opened is kept when the call returns
\* and a later call reuses it instead of opening a new one.
C5_Pooled ==
  [][/\ (pc = "finally" /\ pc' = "idle") => openConns' >= 1
     /\ (pc = "idle" /\ pc' = "with" /\ openConns >= 1) => call'.conns = 0]_vars

\* C5 amended: there is no pool. No connection is kept when a helper call returns,
\* and every call that reaches its body starts without a connection and opens a new
\* one with a credential generated in that call.
C5_NoPooling ==
  [][/\ (pc = "finally" /\ pc' = "idle") => openConns' = 0
     /\ (pc = "idle" /\ pc' = "with") =>
          (openConns = 0 /\ openConns' = 1 /\ call'.creds = 1 /\ call'.conns = 1
           /\ credUses' = 1)]_vars

\* A call is in its body after an earlier call (init_database) completed.
C5_Witness ==
  /\ pc = "with"
  /\ call.op = "create_conversation"
  /\ schema.conversations = "current"
  /\ openConns = 1

FullSchema(s) ==
  /\ s.conversations = "current"
  /\ s.messages = "present"
  /\ s.indexes = {"idx_messages_conversation_id", "idx_messages_query_id"}

\* C9: init_database leaves every conversation and message row (and both
\* sequences) unchanged, yields the full schema from a missing, a legacy or a
\* current one, and on a database it has already initialised changes nothing.
C9_InitIdempotent ==
  [][(InBody("init_database") /\ Returned("init_database")') =>
       /\ conversations' = conversations
       /\ messages' = messages
       /\ conversations_id_seq' = conversations_id_seq
       /\ messages_id_seq' = messages_id_seq
       /\ FullSchema(schema')
       /\ FullSchema(schema) => schema' = schema]_vars

\* init_database has run again on an initialised database that holds rows.
C9_Witness ==
  /\ Returned("init_database")
  /\ Cardinality(conversations) = 2
  /\ messages # {}
  /\ \E c \in conversations : c.mlflow_trace_id # NONE

\* C10: whenever clear_all_conversations completes without error, both tables are
\* empty and the next conversation created receives ID 1.
C10_FreshStart ==
  Returned("clear_all_conversations") =>
    (conversations = {} /\ messages = {} /\ conversations_id_seq = 1)

----------------------------------------------------------------------------
\* Claims about the message helpers (SpecRoundTrip, SpecUpdate)

Rows(seq) == {seq[i] : i \in DOMAIN seq}

RowMatches(row, w) ==
  row.question = w.question /\ row.answer = w.answer /\ row.status = w.status

\* The result of get_conversation_messages(c) holds exactly one row for each of the
\* message ids in ids, with the values add_message wrote, and only rows of c.
RoundTrip(ids) ==
  LET c == call.args.conversation_id
  IN  /\ \A m \in ids :
           added[m].conversation_id = c =>
             /\ Cardinality({i \in DOMAIN ret.val : ret.val[i].id = m}) = 1
             /\ \A i \in DOMAIN ret.val : ret.val[i].id = m => RowMatches(ret.val[i], added[m])
      /\ \A i \in DOMAIN ret.val :
           \E x \in messages : x.id = ret.val[i].id /\ x.conversation_id = c

\* C6 as stated: every get_conversation_messages(c) after add_message(c, ...) returned
\* m holds exactly one row with id m and the question, answer and status written,
\* and no row of another conversation.
C6_RoundTrip ==
  Returned("get_conversation_messages") => RoundTrip(DOMAIN added)

\* C6 amended: the same, for every get_conversation_messages(c) that runs before an
\* update_message(m, ...) with a non-None argument and before a run of
\* clear_all_conversations.
C6_RoundTripUntilUpdated ==
  Returned("get_conversation_messages") =>
    RoundTrip({m \in DOMAIN added : ~added[m].updated})

\* A read returns a message written earlier while another conversation holds a
\* message too.
C6_Witness ==
  /\ Returned("get_conversation_messages")
  /\ \E m \in DOMAIN added :
       /\ ~added[m].updated
       /\ added[m].conversation_id = call.args.conversation_id
       /\ added[m].answer = "a1"
  /\ \E x \in messages : x.conversation_id # call.args.conversation_id

SameButUpdate(n, m) ==
  /\ n.id = m.id
  /\ n.conversation_id = m.conversation_id
  /\ n.user_id = m.user_id
  /\ n.question = m.question
  /\ n.query_id = m.query_id
  /\ n.trace_id = m.trace_id
  /\ n.created_at = m.created_at

\* C7: update_message(message_id, answer, status) changes, in the row with that id
\* only, exactly the fields whose argument is not None, plus updated_at; a None
\* argument keeps the field, other rows are unchanged, and with both arguments None
\* no statement is executed and nothing is committed.
C7_UpdateFrame ==
  [][(InBody("update_message") /\ Returned("update_message")') =>
       LET a == call'.args
       IN  /\ \A m \in messages : m.id # a.message_id => m \in messages'
           /\ \A m \in messages :
                m.id = a.message_id =>
                  \E n \in messages' :
                    /\ SameButUpdate(n, m)
                    /\ n.answer = IF a.answer = NONE THEN m.answer ELSE a.answer
                    /\ n.status = IF a.status = NONE THEN m.status ELSE a.status
                    /\ n.updated_at =
                         IF a.answer = NONE /\ a.status = NONE THEN m.updated_at ELSE clock
           /\ Cardinality(messages') = Cardinality(messages)
           /\ conversations' = conversations
           /\ (a.answer = NONE /\ a.status = NONE) =>
                (messages' = messages /\ call'.stmts = 0 /\ call'.commits = 0)]_vars

\* An update with an empty answer and no status has changed one of two rows, at a
\* later time than the row was written.
C7_Witness ==
  /\ Returned("update_message")
  /\ call.args.answer = ""
  /\ call.args.status = NONE
  /\ Cardinality(messages) = 2
  /\ \E m \in messages :
       /\ m.id = call.args.message_id
       /\ m.answer = ""
       /\ m.status = "pending"
       /\ m.updated_at > m.created_at

----------------------------------------------------------------------------
\* Claims about the conversation list (SpecConversations)

\* C8: get_user_conversations(user) returns each conversation of user exactly once
\* and no conversation of another user, each with message_count equal to the number
\* of message rows referencing it, ordered by created_at descending.
C8_UserConversations ==
  Returned("get_user_conversations") =>
    LET u == call.args.user_id
        rows == ret.val
    IN  /\ \A c \in conversations :
             c.user_id = u => Cardinality({i \in DOMAIN rows : rows[i].id = c.id}) = 1
        /\ \A i \in DOMAIN rows :
             \E c \in conversations :
               /\ c.id = rows[i].id
               /\ c.user_id = u
               /\ rows[i].created_at = c.created_at
               /\ rows[i].message_count =
                    Cardinality({m \in messages : m.conversation_id = c.id})
        /\ \A i \in 1..(Len(rows) - 1) : rows[i].created_at >= rows[i + 1].created_at

\* The list of a user with two conversations of different age, one with and one
\* without messages, while another user has a conversation too.
C8_Witness ==
  /\ Returned("get_user_conversations")
  /\ Len(ret.val) = 2
  /\ ret.val[1].created_at > ret.val[2].created_at
  /\ ret.val[1].message_count = 0
  /\ ret.val[2].message_count > 0
  /\ \E c \in conversations : c.user_id # call.args.user_id

----------------------------------------------------------------------------
\* Claims about the telemetry logger (SpecTelemetry)

\* C1: log_user_satisfaction, log_review_request and log_correction never raise:
\* they return True when the MLflow call succeeds, False when it raises, and False
\* without calling MLflow when use_mlflow is false.
C1_LoggersNeverRaise ==
  log_ret.fn # NONE =>
    /\ ~log_ret.raised
    /\ (log_ret.use_mlflow /\ log_ret.outcome = "ok") => log_ret.value
    /\ (log_ret.use_mlflow /\ log_ret.outcome # "ok") => ~log_ret.value
    /\ ~log_ret.use_mlflow => (~log_ret.value /\ ~log_ret.called)

\* A correction is stored and the MLflow call of a later logger has raised.
C1_Witness ==
  /\ log_ret.fn = "log_review_request"
  /\ log_ret.use_mlflow
  /\ log_ret.outcome = "ConnectionError"
  /\ \E a \in assessments : a.name = "user_correction"

----------------------------------------------------------------------------
\* Claims about format_response (SpecFormat)

\* C3: for every input format_response returns a string and never raises.
C3_AlwaysText ==
  fmt_ret.called => (~fmt_ret.raised /\ fmt_ret.text.how \in {"lit", "repr", "json"})

----------------------------------------------------------------------------
\* Claims about question submission (SpecSubmit)

TelemetryFailures == {"setup_raises", "experiment_missing", "no_traces", "error", "other_id"}

TelemetryFailed(s) ==
  /\ run[s].stream = "streamed"
  /\ run[s].telemetry \in TelemetryFailures

\* The row add_message stored for the run of the session.
StoredForRun(s, m) ==
  /\ m.id = run[s].message_id
  /\ m.conversation_id = session[s].conversation_id
  /\ m.user_id = session[s].user_id
  /\ m.question = run[s].question
  /\ m.answer = run[s].answer
  /\ m.status = "complete"

\* C2: when the streamed answer was received and setup_mlflow raised or
\* get_most_recent_trace_id failed or found no trace, the run is never ended by the
\* telemetry step (only a database error ends a run early); it goes on to the save
\* step with the local trace ID, and once the run has completed with the database
\* enabled and a non-empty answer, the message is stored with the local trace ID
\* and the session's message list is the reloaded list that contains it.
C2_TelemetryNeverBlocks ==
  \A s \in Sessions :
    /\ run[s].pc = "aborted" => run[s].error = "database"
    /\ TelemetryFailed(s) =>
         /\ run[s].pc \in {"save", "reload", "done", "aborted"}
         /\ run[s].local_trace_id # NONE
         /\ run[s].trace_id = run[s].local_trace_id
         /\ session[s].last_trace_id = run[s].local_trace_id
         /\ (run[s].pc \in {"reload", "done"} /\ session[s].db_enabled
               /\ NonEmpty(run[s].answer)) =>
              \E m \in messages : StoredForRun(s, m) /\ m.trace_id = run[s].local_trace_id
         /\ (run[s].pc = "done" /\ session[s].db_enabled /\ NonEmpty(run[s].answer)) =>
              /\ session[s].messages \in
                   OrderByCreatedAsc(SelectConversationMessages(session[s].conversation_id))
              /\ \E i \in DOMAIN session[s].messages :
                   /\ session[s].messages[i].id = run[s].message_id
                   /\ session[s].messages[i].answer = run[s].answer

C2_Witness ==
  \E s \in Sessions :
    /\ TelemetryFailed(s)
    /\ run[s].telemetry = "setup_raises"
    /\ run[s].pc = "done"
    /\ session[s].db_enabled
    /\ NonEmpty(run[s].answer)
    /\ \E m \in messages : StoredForRun(s, m) /\ m.trace_id = run[s].local_trace_id

\* The streaming attempt of the run failed: the request could not be created
\* (call_endpoint_stream fell back by itself) or the stream raised while consumed.
StreamingFailed(s) == run[s].stream \in {"inner_fallback", "raises"}

\* The run is past its calls of the endpoint.
Answered(s) == run[s].pc \in {"telemetry", "save", "reload", "done", "aborted"}

\* C18: when streaming failed, at creation or during consumption, the run carries no
\* trace ID, an answer it has is format_response of the response of the last
\* non-streaming call, and the row stored for the run has that answer and no trace ID.
C18_FallbackAnswer ==
  \A s \in Sessions :
    (StreamingFailed(s) /\ Answered(s)) =>
      /\ run[s].trace_id = NONE
      /\ run[s].answer # NONE =>
           /\ run[s].answer_from \in {"inner", "app"}
           /\ ~FormatResponse(run[s].response).raised
           /\ run[s].answer = Rendered(FormatResponse(run[s].response).text)
      /\ \A m \in messages :
           m.id = run[s].message_id =>
             m.trace_id = NONE /\ m.answer = run[s].answer /\ run[s].answer # NONE

\* The stream raised while it was consumed, the page's fallback answered and the
\* answer was stored without a trace ID.
C18_Witness ==
  \E s \in Sessions :
    /\ run[s].stream = "raises"
    /\ run[s].local_trace_id # NONE
    /\ run[s].answer_from = "app"
    /\ run[s].pc = "done"
    /\ \E m \in messages :
         m.id = run[s].message_id /\ m.answer = "a2" /\ m.trace_id = NONE

\* C19: handling a submitted question ends, in st.rerun() or in an uncaught
\* database exception, and sends at most 3 requests to the serving endpoint; the
\* endpoint calls end with an answer or with answer None and an error shown.
C19_TerminatesWithin3Requests ==
  /\ [](\A s \in Sessions :
          /\ run[s].requests <= 3
          /\ run[s].pc \in {"save", "reload", "done"} =>
               \/ run[s].answer # NONE /\ ~run[s].shown_error
               \/ run[s].answer = NONE /\ run[s].shown_error)
  /\ \A s \in Sessions : (run[s].pc = "stream") ~> (run[s].pc \in {"done", "aborted"})

\* All three requests were sent and failed, and the run ended without an answer.
C19_Witness ==
  \E s \in Sessions :
    /\ run[s].requests = 3
    /\ run[s].answer = NONE
    /\ run[s].shown_error
    /\ run[s].pc = "done"

\* C20: every message row the page writes has a non-empty answer, status
\* "complete" and the ID of the current conversation of the session that wrote
\* it, which is not None; no row has status "pending", and a run whose answer is
\* empty or None writes no row.
C20_RowsWritten ==
  [][/\ \A m \in messages' \ messages :
          /\ m.answer # NONE /\ m.answer # ""
          /\ m.status = "complete"
          /\ \E s \in Sessions :
               /\ run[s].pc = "save"
               /\ m.answer = run[s].answer
               /\ session[s].conversation_id # 0
               /\ m.conversation_id = session[s].conversation_id
     /\ \A s \in Sessions :
          (run[s].pc = "save" /\ run'[s].pc # "save" /\ run[s].answer \in {NONE, ""}) =>
            messages' = messages]_vars

\* The question was submitted without a conversation; the conversation was
\* created and the streamed answer stored in it.
C20_Witness ==
  \E s \in Sessions :
    /\ run[s].pc = "done"
    /\ run[s].answer = "a1"
    /\ session[s].conversation_id # 0
    /\ \E m \in messages :
         /\ m.id = run[s].message_id
         /\ m.conversation_id = session[s].conversation_id
         /\ m.answer = "a1"
         /\ m.status = "complete"

\* C21: once a submission that produced an answer has ended in st.rerun(), the
\* message list of the session has an entry with the question and the answer of
\* that submission, with the database enabled or not.
C21_AnswerInMessageList ==
  \A s \in Sessions :
    (run[s].pc = "done" /\ run[s].answer # NONE /\ run[s].answer # "") =>
      \E i \in DOMAIN session[s].messages :
        /\ session[s].messages[i].question = run[s].question
        /\ session[s].messages[i].answer = run[s].answer

----------------------------------------------------------------------------
\* Claims about call_endpoint (SpecEndpoint)

----------------------------------------------------------------------------
\* Claims about the configuration loader (SpecConfig)

\* C14: when DATABRICKS_HOST and ENDPOINT_NAME are set the loaded configuration's
\* host and endpoint_name equal those values, and when they are unset both fields
\* have non-null defaults.
C14_FromEnvironment ==
  config.loaded =>
    /\ (config.environ.DATABRICKS_HOST # NONE /\ config.environ.ENDPOINT_NAME # NONE) =>
         /\ config.host = config.environ.DATABRICKS_HOST
         /\ config.endpoint_name = config.environ.ENDPOINT_NAME
    /\ (config.environ.DATABRICKS_HOST = NONE /\ config.environ.ENDPOINT_NAME = NONE) =>
         (config.host # NONE /\ config.endpoint_name # NONE)

----------------------------------------------------------------------------
\* More claims about format_response (SpecFormat)

IsPredictionsString == IsDict(response) /\ HasKey(response, "predictions")
                         /\ IsStr(Item(response, "predictions"))

IsChoicesResponse ==
  /\ IsDict(response)
  /\ HasKey(response, "choices")
  /\ ~HasKey(response, "predictions")
  /\ ~FormatOutput(response).hit
  /\ LET choices == Item(response, "choices")
     IN  /\ IsList(choices) /\ Len(choices.items) > 0
         /\ IsDict(choices.items[1])
         /\ HasKey(choices.items[1], "message")
         /\ IsDict(Item(choices.items[1], "message"))
         /\ HasKey(Item(choices.items[1], "message"), "content")
         /\ Truthy(Item(Item(choices.items[1], "message"), "content"))

\* C13: for an OpenAI-style dict (no "predictions" key, no "output" list with text)
\* whose "choices" list has a first element with a non-empty message.content,
\* format_response returns str() of that content.
C13_ChoicesContent ==
  (fmt_ret.called /\ IsChoicesResponse) =>
    /\ ~fmt_ret.raised
    /\ fmt_ret.text = StrOf(Item(Item(Item(response, "choices").items[1], "message"),
                                 "content"))

\* The choices are used although the dict also has answer and content keys.
C13_Witness ==
  /\ fmt_ret.called
  /\ IsChoicesResponse
  /\ HasKey(response, "answer")
  /\ fmt_ret.text = Lit("ch")

\* C24: for a plain dict response format_response returns the text of the first
\* format that applies, tried in the order "output" (text of the first content item
\* of the first output message, or its content string), "predictions", "choices"
\* (first choice's message.content), "answer", "content"; when none applies it
\* returns the JSON serialization of the whole dict.  When "predictions" is the
\* first format that applies any returned text is accepted.
C24_FirstFormatInOrder ==
  (fmt_ret.called /\ IsDict(response)) =>
    /\ ~fmt_ret.raised
    /\ IF FormatOutput(response).hit THEN fmt_ret.text = FormatOutput(response).text
       ELSE IF HasKey(response, "predictions")
       THEN TRUE
       ELSE IF FormatChoices(response).hit THEN fmt_ret.text = FormatChoices(response).text
       ELSE IF HasKey(response, "answer")
       THEN fmt_ret.text = StrOf(Item(response, "answer"))
       ELSE IF HasKey(response, "content")
       THEN fmt_ret.text = StrOf(Item(response, "content"))
       ELSE fmt_ret.text = Json(response)

----------------------------------------------------------------------------
\* Claims about sessions and traces (SpecSessions)

\* The messages of a conversation that were saved with a trace ID.
TracedMessages(conversation_id) ==
  {m \in messages : m.conversation_id = conversation_id /\ m.trace_id # NONE}

\* The trace ID of the first of them, None when there is none.
FirstTraceId(conversation_id) ==
  IF TracedMessages(conversation_id) = {} THEN NONE
  ELSE (CHOOSE m \in TracedMessages(conversation_id) :
          \A x \in TracedMessages(conversation_id) : m.id <= x.id).trace_id

\* C15: whatever the sessions did, the mlflow_trace_id of every conversation is the
\* trace ID of the first message saved with a trace ID in that conversation (None
\* while there is no such message); a later message never replaces it.
C15_FirstTraceKept ==
  \A c \in conversations : c.mlflow_trace_id = FirstTraceId(c.id)

\* The trace ID stored with the last message of the list a session displays.
RatedTraceId(s) ==
  StoredMessage(session[s].messages[Len(session[s].messages)].id).trace_id

\* C16: every assessment a feedback button logs carries the trace ID of the
\* response being rated, the last message of the conversation the session
\* displays, whatever submissions and conversation switches came before.
C16_FeedbackOnRatedResponse ==
  [][\A a \in assessments' \ assessments :
       \E s \in Sessions :
         /\ Len(session[s].messages) > 0
         /\ a.source.source_id = session[s].user_id
         /\ a.trace_id = RatedTraceId(s)]_vars

\* The IDs that identify the requests made for question n of session s: the local
\* ID call_endpoint_stream generated and the MLflow trace of those requests.
OwnTraceIds(s, n) == {Uuid(s, n), TraceId("tr", s, n)}

\* C17: with several sessions submitting questions at the same time, the trace ID
\* a run goes on to store with its message, which is also the session's
\* last_trace_id, identifies a request of that run and never a request of
\* another session; so does the trace ID of the row the run stored.
C17_OwnRequestTrace ==
  \A s \in Sessions :
    (run[s].pc \in {"save", "reload", "done"} /\ run[s].trace_id # NONE) =>
      /\ run[s].trace_id \in OwnTraceIds(s, session[s].submitted)
      /\ session[s].last_trace_id = run[s].trace_id
      /\ \A m \in messages :
           m.id = run[s].message_id => m.trace_id \in OwnTraceIds(s, session[s].submitted)

----------------------------------------------------------------------------
\* Claims about sessions of several users (SpecUsers)

\* The user who owns the conversation, None when no such conversation is stored.
OwnerOf(conversation_id) ==
  IF \E c \in conversations : c.id = conversation_id
  THEN (CHOOSE c \in conversations : c.id = conversation_id).user_id
  ELSE NONE

\* C22: whatever the sessions and the clearing script did, every message row has
\* the user_id of the conversation it references, and a session that displays
\* messages loaded from the database displays those of a conversation of its user.
C22_OwnConversationOnly ==
  /\ \A m \in messages : m.user_id = OwnerOf(m.conversation_id)
  /\ \A s \in Sessions :
       (session[s].conversation_id # 0 /\ Len(session[s].messages) > 0) =>
         OwnerOf(session[s].conversation_id) \in {NONE, session[s].user_id}

\* ---------------------------------------------------------------------------
\* Claims about the sidebar's conversation list (SpecSidebar)
\* ---------------------------------------------------------------------------

\* C23: a render of the sidebar queries the database exactly when the cache is
\* empty, no fetch time is recorded, or more than 5 seconds have passed since the
\* last fetch; otherwise the cached rows are shown, no query is made and the cache
\* and its fetch time stay as they were.
C23_SidebarCache ==
  [][\A s \in Sessions :
       sidebar'[s].render_bit # sidebar[s].render_bit =>
         LET b == sidebar[s]
             stale == \/ ~b.conversations_cache.set
                      \/ b.conversations_last_fetch = NoFetch
                      \/ now - b.conversations_last_fetch > CacheSeconds
         IN  /\ sidebar'[s].queried <=> stale
             /\ ~stale =>
                  /\ sidebar'[s].shown = b.conversations_cache.rows
                  /\ sidebar'[s].conversations_cache = b.conversations_cache
                  /\ sidebar'[s].conversations_last_fetch = b.conversations_last_fetch]_vars

\* A render exactly 5 seconds after the last fetch showed a cached, non-empty list
\* without a query.
C23_Witness ==
  \E s \in Sessions :
    /\ sidebar[s].conversations_cache.set
    /\ sidebar[s].conversations_cache.rows # <<>>
    /\ sidebar[s].rendered_at = now
    /\ now - sidebar[s].conversations_last_fetch = CacheSeconds
    /\ ~sidebar[s].queried
    /\ sidebar[s].shown = sidebar[s].conversations_cache.rows

====
